---------------------------- MODULE Spec2Model ----------------------------
(***************************************************************************)
(* Model of the market-share extraction of src/utils/fileProcessor.js:     *)
(* processFile's onload handler and extractMarketShareData (column         *)
(* detection, per-row normalisation, ranking, brand normalisation and the  *)
(* formatted result).                                                      *)
(*                                                                         *)
(* Representation.  A JavaScript string is a sequence of one-character     *)
(* strings.  A JavaScript number is an integer counting units of           *)
(* 10^-FracDigits (fixed point); NaN, undefined and strings are told       *)
(* apart by the tag t of a value record [t, s, n].  The inputs hold        *)
(* decimal literals of at most FracDigits fraction digits, no exponent     *)
(* notation and no Infinity, so the fixed-point arithmetic is exact; ties  *)
(* of toFixed are rounded on the exact decimal value.  Array indices are   *)
(* zero-based as in the source: Cell(row, j) reads row[j].                 *)
(***************************************************************************)
EXTENDS Integers, Sequences, FiniteSets, TLC

\* ------------------------------------------------------------------------
\* Bounds of the model
\* ------------------------------------------------------------------------
FracDigits == 4
MaxBody == 2
MaxFill == 11

Pow10(k) == IF k = 0 THEN 1 ELSE IF k = 1 THEN 10 ELSE IF k = 2 THEN 100
            ELSE IF k = 3 THEN 1000 ELSE IF k = 4 THEN 10000 ELSE 100000
Unit == Pow10(FracDigits)

\* ------------------------------------------------------------------------
\* JavaScript values: undefined (an absent cell), string, number, NaN
\* ------------------------------------------------------------------------
Absent == [t |-> "absent", s |-> <<>>, n |-> 0]
NaN == [t |-> "nan", s |-> <<>>, n |-> 0]
Str(chars) == [t |-> "str", s |-> chars, n |-> 0]
Num(k) == [t |-> "num", s |-> <<>>, n |-> k]
\* the number  whole + frac4/10000, e.g. Dec(12, 3400) is 12.34
Dec(whole, frac4) == Num(whole * Unit + frac4 * (Unit \div 10000))

IsString(v) == v.t = "str"
IsNumber(v) == v.t \in {"num", "nan"}

\* ------------------------------------------------------------------------
\* Strings
\* ------------------------------------------------------------------------
UpperCase == <<"A", "B", "C", "D", "E", "F", "G", "H", "I", "J", "K", "L", "M", "N", "O", "P", "Q", "R", "S", "T", "U", "V", "W", "X", "Y", "Z">>
LowerCase == <<"a", "b", "c", "d", "e", "f", "g", "h", "i", "j", "k", "l", "m", "n", "o", "p", "q", "r", "s", "t", "u", "v", "w", "x", "y", "z">>
DigitChars == <<"0", "1", "2", "3", "4", "5", "6", "7", "8", "9">>

Range(f) == {f[x] : x \in DOMAIN f}

\* F applied to the value of x: the loops below hand their accumulator
\* over as a value, never as a pending expression
Then(x, F(_)) == CHOOSE r \in {F(v) : v \in {x}} : TRUE

toLowerChar(c) ==
  IF c \in Range(UpperCase)
    THEN LowerCase[CHOOSE k \in 1..26 : UpperCase[k] = c]
    ELSE c

\* String.prototype.toLowerCase
toLowerCase(s) == [k \in 1..Len(s) |-> toLowerChar(s[k])]

\* String.prototype.includes
includes(s, sub) ==
  \E k \in 0..(Len(s) - Len(sub)) : SubSeq(s, k + 1, k + Len(sub)) = sub

\* String.prototype.replace(/[...]/g, ''): drop every character of the class
removeChars(s, class) == SelectSeq(s, LAMBDA c : c \notin class)

\* String.prototype.trim (white space is the space character here)
trim(s) ==
  IF \A k \in 1..Len(s) : s[k] = " " THEN <<>>
  ELSE LET a == CHOOSE k \in 1..Len(s) :
                  s[k] # " " /\ \A m \in 1..(k - 1) : s[m] = " "
           b == CHOOSE k \in 1..Len(s) :
                  s[k] # " " /\ \A m \in (k + 1)..Len(s) : s[m] = " "
       IN SubSeq(s, a, b)

IsDigit(c) == c \in Range(DigitChars)
DigitVal(c) == (CHOOSE k \in 1..10 : DigitChars[k] = c) - 1

\* number of leading digit characters of s from position p on
RECURSIVE DigitRun(_, _)
DigitRun(s, p) ==
  IF p <= Len(s) /\ IsDigit(s[p]) THEN 1 + DigitRun(s, p + 1) ELSE 0

\* value of a run of digits as an integer
RECURSIVE DigitsValue(_)
DigitsValue(ds) ==
  IF ds = <<>> THEN 0
  ELSE 10 * DigitsValue(SubSeq(ds, 1, Len(ds) - 1)) + DigitVal(ds[Len(ds)])

\* value of a run of fraction digits in units of 10^-FracDigits
RECURSIVE FractionValue(_, _)
FractionValue(ds, place) ==
  IF ds = <<>> \/ place > FracDigits THEN 0
  ELSE DigitVal(ds[1]) * Pow10(FracDigits - place)
       + FractionValue(Tail(ds), place + 1)

\* parseFloat: leading white space, an optional sign, digits, an optional
\* fraction; whatever follows is ignored; NaN when no digit is found
parseFloat(s) ==
  LET lead == IF \E k \in 1..Len(s) : s[k] # " "
                THEN CHOOSE k \in 1..Len(s) :
                       s[k] # " " /\ \A m \in 1..(k - 1) : s[m] = " "
                ELSE Len(s) + 1
      signed == lead <= Len(s) /\ s[lead] \in {"-", "+"}
      neg == signed /\ s[lead] = "-"
      p == IF signed THEN lead + 1 ELSE lead
      ni == DigitRun(s, p)
      dot == p + ni <= Len(s) /\ s[p + ni] = "."
      nf == IF dot THEN DigitRun(s, p + ni + 1) ELSE 0
      mag == DigitsValue(SubSeq(s, p, p + ni - 1)) * Unit
             + FractionValue(SubSeq(s, p + ni + 1, p + ni + nf), 1)
  IN IF ni + nf = 0 THEN NaN ELSE Num(IF neg THEN 0 - mag ELSE mag)

\* parseInt(s, 10): leading white space, an optional sign, digits
parseInt(s) ==
  LET lead == IF \E k \in 1..Len(s) : s[k] # " "
                THEN CHOOSE k \in 1..Len(s) :
                       s[k] # " " /\ \A m \in 1..(k - 1) : s[m] = " "
                ELSE Len(s) + 1
      signed == lead <= Len(s) /\ s[lead] \in {"-", "+"}
      neg == signed /\ s[lead] = "-"
      p == IF signed THEN lead + 1 ELSE lead
      ni == DigitRun(s, p)
      mag == DigitsValue(SubSeq(s, p, p + ni - 1)) * Unit
  IN IF ni = 0 THEN NaN ELSE Num(IF neg THEN 0 - mag ELSE mag)

\* decimal digits of a natural number
RECURSIVE NatToString(_)
NatToString(k) ==
  IF k < 10 THEN <<DigitChars[k + 1]>>
  ELSE NatToString(k \div 10) \o <<DigitChars[(k % 10) + 1]>>

\* k written with exactly w digits (leading zeros)
RECURSIVE PadDigits(_, _)
PadDigits(k, w) ==
  IF w = 0 THEN <<>> ELSE PadDigits(k \div 10, w - 1) \o <<DigitChars[(k % 10) + 1]>>

Abs(k) == IF k < 0 THEN 0 - k ELSE k

\* Number.prototype.toFixed(d) of the number k (in units): the nearest
\* multiple of 10^-d, the larger one on a tie of the magnitude
toFixed(k, d) ==
  LET q == (2 * Abs(k) * Pow10(d) + Unit) \div (2 * Unit)
      whole == NatToString(q \div Pow10(d))
      frac == IF d = 0 THEN <<>> ELSE <<".">> \o PadDigits(q % Pow10(d), d)
  IN (IF k < 0 THEN <<"-">> ELSE <<>>) \o whole \o frac

\* fraction digits without the trailing zeros
RECURSIVE DropTrailingZeros(_)
DropTrailingZeros(ds) ==
  IF ds # <<>> /\ ds[Len(ds)] = "0"
    THEN DropTrailingZeros(SubSeq(ds, 1, Len(ds) - 1))
    ELSE ds

\* Number.prototype.toString of the number k (in units)
numberToString(k) ==
  LET frac == DropTrailingZeros(PadDigits(Abs(k) % Unit, FracDigits))
  IN (IF k < 0 THEN <<"-">> ELSE <<>>)
     \o NatToString(Abs(k) \div Unit)
     \o (IF frac = <<>> THEN <<>> ELSE <<".">> \o frac)

\* ------------------------------------------------------------------------
\* Rows and cells (XLSX.utils.sheet_to_json(worksheet, {header: 1}))
\* ------------------------------------------------------------------------
\* a row is an array of cells, or null/undefined (nil)
NoRow == [nil |-> TRUE, c |-> <<>>]
\* the array of the given length whose cells are given by index (zero-based)
MkRow(len, at) ==
  [nil |-> FALSE,
   c |-> [k \in 1..len |-> IF (k - 1) \in DOMAIN at THEN at[k - 1] ELSE Absent]]

\* row.length
RowLength(row) == Len(row.c)
\* row[j]: undefined beyond the array (and for the index -1)
Cell(row, j) == IF j >= 0 /\ j < Len(row.c) THEN row.c[j + 1] ELSE Absent

\* `x && typeof x === 'string'`: a non-empty string
IsTextCell(v) == IsString(v) /\ v.s # <<>>

Max2(a, b) == IF a >= b THEN a ELSE b
Min2(a, b) == IF a <= b THEN a ELSE b

\* ------------------------------------------------------------------------
\* Column detection (the header scan of extractMarketShareData)
\* ------------------------------------------------------------------------
ScanRows == 10

\* DefaultColumns with the brand in column A
MutantDefaultColumns ==
  [brandColIndex |-> 0,
   marketShareColIndex |-> 12,
   totalSalesColIndex |-> 6,
   avgPriceColIndex |-> 10,
   domColIndex |-> 9,
   pricePerSqftColIndex |-> 0 - 1,
   closedListRatioColIndex |-> 0 - 1,
   totalOfficesColIndex |-> 19,
   contributingAgentsColIndex |-> 19]

\* the column indices before the header scan
DefaultColumns ==
  [brandColIndex |-> 1,
   marketShareColIndex |-> 12,
   totalSalesColIndex |-> 6,
   avgPriceColIndex |-> 10,
   domColIndex |-> 9,
   pricePerSqftColIndex |-> 0 - 1,
   closedListRatioColIndex |-> 0 - 1,
   totalOfficesColIndex |-> 19,
   contributingAgentsColIndex |-> 19]

\* the header rules, on the lower-cased cell text
IsMktPercentHeader(t) ==
  t = <<"m", "k", "t", " ", "%">> \/ (includes(t, <<"m", "a", "r", "k", "e", "t">>) /\ includes(t, <<"%">>))

IsVolPerAgentHeader(t) ==
  \/ includes(t, <<"$", " ", "v", "o", "l", " ", "p", "e", "r", " ", "p", "r", "o", "d", " ", "a", "g", "e", "n", "t">>)
  \/ includes(t, <<"v", "o", "l", " ", "p", "e", "r", " ", "p", "r", "o", "d">>)
  \/ includes(t, <<"p", "e", "r", " ", "a", "g", "e", "n", "t">>)

IsBrandHeader(t) ==
  \/ includes(t, <<"b", "r", "a", "n", "d">>)
  \/ includes(t, <<"c", "o", "m", "p", "a", "n", "y">>)
  \/ includes(t, <<"b", "r", "o", "k", "e", "r", "a", "g", "e">>)
  \/ includes(t, <<"f", "i", "r", "m">>)
  \/ t = <<"n", "a", "m", "e">>

IsTotalSalesHeader(t) ==
  t = <<"t", "o", "t", "a", "l", " ", "#">> \/ (includes(t, <<"t", "o", "t", "a", "l">>) /\ includes(t, <<"#">>))

IsAvgPriceHeader(t) ==
  \/ t = <<"a", "v", "g", " ", "p", "r", "i", "c", "e">>
  \/ (includes(t, <<"a", "v", "g">>) /\ includes(t, <<"p", "r", "i", "c", "e">>))
  \/ (includes(t, <<"a", "v", "e", "r", "a", "g", "e">>) /\ includes(t, <<"s", "a", "l", "e", "s">>))

IsDomHeader(t) ==
  \/ t = <<"d", "o", "m">>
  \/ includes(t, <<"d", "a", "y", "s", " ", "o", "n", " ", "m", "a", "r", "k", "e", "t">>)
  \/ (includes(t, <<"d", "a", "y", "s">>) /\ includes(t, <<"m", "a", "r", "k", "e", "t">>))

IsPricePerSqftHeader(t) ==
  \/ t = <<"p", "r", "i", "c", "e", "/", "s", "q", "f", "t">>
  \/ includes(t, <<"p", "r", "i", "c", "e", " ", "p", "e", "r", " ", "s", "q">>)
  \/ includes(t, <<"p", "r", "i", "c", "e", "/", "s", "q">>)
  \/ includes(t, <<"p", "r", "i", "c", "e", " ", "p", "e", "r", " ", "f", "o", "o", "t">>)
  \/ (includes(t, <<"p", "r", "i", "c", "e">>) /\ includes(t, <<"s", "q", "f", "t">>))

IsClosedListHeader(t) ==
  \/ t = <<"c", "l", "o", "s", "e", "d", "/", "l", "i", "s", "t", " ", "p", "r", "i", "c", "e">>
  \/ (includes(t, <<"c", "l", "o", "s", "e", "d">>) /\ includes(t, <<"l", "i", "s", "t">>))
  \/ (includes(t, <<"s", "a", "l", "e">>) /\ includes(t, <<"l", "i", "s", "t">>))

IsTotalOfficesHeader(t) ==
  \/ t = <<"#", " ", "o", "f", "f", "i", "c", "e", "s">>
  \/ t = <<"t", "o", "t", "a", "l", " ", "o", "f", "f", "i", "c", "e", "s">>
  \/ (includes(t, <<"o", "f", "f", "i", "c", "e">>) /\ (includes(t, <<"t", "o", "t", "a", "l">>) \/ includes(t, <<"#">>)))

IsContributingAgentsHeader(t) ==
  \/ t = <<"c", "o", "n", "t", "r", "i", "b", "u", "t", "i", "n", "g", " ", "a", "g", "e", "n", "t", "s">>
  \/ (includes(t, <<"c", "o", "n", "t", "r", "i", "b", "u", "t", "i", "n", "g">>) /\ includes(t, <<"a", "g", "e", "n", "t">>))

IsExactMarketShareHeader(t) ==
  t = <<"m", "a", "r", "k", "e", "t", " ", "s", "h", "a", "r", "e", " ", "(", "#", ")">> \/ t = <<"m", "a", "r", "k", "e", "t", " ", "s", "h", "a", "r", "e", " ", "(", "%", ")">>

IsPartialMarketShareHeader(t) ==
  includes(t, <<"m", "a", "r", "k", "e", "t", " ", "s", "h", "a", "r", "e">>) \/ includes(t, <<"m", "k", "t", " ", "s", "h", "a", "r", "e">>)

IsGenericShareHeader(t) ==
  includes(t, <<"s", "h", "a", "r", "e">>) \/ includes(t, <<"p", "e", "r", "c", "e", "n", "t", "a", "g", "e">>) \/ includes(t, <<"%">>)

\* the check of column I (index 8) for "Mkt %"
CheckColumnI(cols, row) ==
  IF /\ RowLength(row) > 8
     /\ IsTextCell(Cell(row, 8))
     /\ IsMktPercentHeader(toLowerCase(Cell(row, 8).s))
    THEN [cols EXCEPT !.marketShareColIndex = 8]
    ELSE cols

\* CheckColumnM without the `marketShareColIndex !== 8` guard
MutantCheckColumnM(cols, row) ==
  IF /\ RowLength(row) > 12
     /\ IsTextCell(Cell(row, 12))
     /\ IsVolPerAgentHeader(toLowerCase(Cell(row, 12).s))
    THEN [cols EXCEPT !.marketShareColIndex = 12]
    ELSE cols

\* the check of column M (index 12) for "$ Vol Per Prod Agent"
CheckColumnM(cols, row) ==
  IF /\ cols.marketShareColIndex # 8
     /\ RowLength(row) > 12
     /\ IsTextCell(Cell(row, 12))
     /\ IsVolPerAgentHeader(toLowerCase(Cell(row, 12).s))
    THEN [cols EXCEPT !.marketShareColIndex = 12]
    ELSE cols

\* the generic market-share rules, tried only while the column is neither 8
\* nor 12: exact match, else partial match, else generic match
ScanMarketShare(marketShareColIndex, t, j) ==
  IF marketShareColIndex # 8 /\ marketShareColIndex # 12
    THEN IF IsExactMarketShareHeader(t) THEN j
         ELSE IF IsPartialMarketShareHeader(t) THEN j
         ELSE IF IsGenericShareHeader(t) THEN j
         ELSE marketShareColIndex
    ELSE marketShareColIndex

\* ScanCell where a brand column that was found is not overwritten
MutantScanCell(cols, cell, j) ==
  IF ~IsTextCell(cell) THEN cols
  ELSE
    LET t == toLowerCase(cell.s)
    IN [brandColIndex |->
          IF IsBrandHeader(t) /\ cols.brandColIndex = 1
            THEN j ELSE cols.brandColIndex,
        totalSalesColIndex |->
          IF IsTotalSalesHeader(t) THEN j ELSE cols.totalSalesColIndex,
        avgPriceColIndex |->
          IF IsAvgPriceHeader(t) THEN j ELSE cols.avgPriceColIndex,
        domColIndex |->
          IF IsDomHeader(t) THEN j ELSE cols.domColIndex,
        pricePerSqftColIndex |->
          IF IsPricePerSqftHeader(t) THEN j ELSE cols.pricePerSqftColIndex,
        closedListRatioColIndex |->
          IF IsClosedListHeader(t) THEN j ELSE cols.closedListRatioColIndex,
        totalOfficesColIndex |->
          IF IsTotalOfficesHeader(t) THEN j ELSE cols.totalOfficesColIndex,
        contributingAgentsColIndex |->
          IF IsContributingAgentsHeader(t)
            THEN j ELSE cols.contributingAgentsColIndex,
        marketShareColIndex |->
          ScanMarketShare(cols.marketShareColIndex, t, j)]

\* one iteration of the inner loop: the cell at index j; each rule that
\* matches sets its own index
ScanCell(cols, cell, j) ==
  IF ~IsTextCell(cell) THEN cols
  ELSE
    LET t == toLowerCase(cell.s)
    IN [brandColIndex |->
          IF IsBrandHeader(t) THEN j ELSE cols.brandColIndex,
        totalSalesColIndex |->
          IF IsTotalSalesHeader(t) THEN j ELSE cols.totalSalesColIndex,
        avgPriceColIndex |->
          IF IsAvgPriceHeader(t) THEN j ELSE cols.avgPriceColIndex,
        domColIndex |->
          IF IsDomHeader(t) THEN j ELSE cols.domColIndex,
        pricePerSqftColIndex |->
          IF IsPricePerSqftHeader(t) THEN j ELSE cols.pricePerSqftColIndex,
        closedListRatioColIndex |->
          IF IsClosedListHeader(t) THEN j ELSE cols.closedListRatioColIndex,
        totalOfficesColIndex |->
          IF IsTotalOfficesHeader(t) THEN j ELSE cols.totalOfficesColIndex,
        contributingAgentsColIndex |->
          IF IsContributingAgentsHeader(t)
            THEN j ELSE cols.contributingAgentsColIndex,
        marketShareColIndex |->
          ScanMarketShare(cols.marketShareColIndex, t, j)]

\* the inner loop from index j on
RECURSIVE ScanCells(_, _, _)
ScanCells(cols, row, j) ==
  IF j >= RowLength(row) THEN cols
  ELSE Then(ScanCell(cols, Cell(row, j), j),
            LAMBDA c : ScanCells(c, row, j + 1))

\* one iteration of the outer loop: the row data[i]
DetectRow(cols, row) ==
  IF row.nil THEN cols
  ELSE Then(CheckColumnI(cols, row),
            LAMBDA c1 : Then(CheckColumnM(c1, row),
                             LAMBDA c2 : ScanCells(c2, row, 0)))

\* ------------------------------------------------------------------------
\* Per-row processing
\* ------------------------------------------------------------------------
\* isNaN(v): Number(undefined) is NaN; a string is converted first
isNaN(v) ==
  \/ v.t \in {"absent", "nan"}
  \/ (v.t = "str" /\ parseFloat(v.s).t = "nan")

\* `!row || row.length <= Math.max(brandColIndex, marketShareColIndex)`
RowTooShort(cols, row) ==
  \/ row.nil
  \/ RowLength(row) <= Max2(cols.brandColIndex, cols.marketShareColIndex)

\* `!brand || brand === ''`
BrandMissing(brand) ==
  \/ brand.t \in {"absent", "nan"}
  \/ (brand.t = "str" /\ brand.s = <<>>)
  \/ (brand.t = "num" /\ brand.n = 0)

\* brand.toString()
brandToString(brand) ==
  IF brand.t = "str" THEN brand.s ELSE numberToString(brand.n)

\* CoerceMarketShare without the fraction rescale of numbers
MutantCoerceNoRescale(cell) ==
  IF cell.t = "str"
    THEN parseFloat(removeChars(cell.s, {"%", "$", ","}))
    ELSE cell

\* CoerceMarketShare with the fraction rescale applied to parsed text too
MutantCoerceRescaleText(cell) ==
  LET v == IF cell.t = "str"
             THEN parseFloat(removeChars(cell.s, {"%", "$", ","}))
             ELSE cell
  IN IF v.t = "num" /\ v.n < 1 * Unit THEN Num(v.n * 100) ELSE v

\* CoerceMarketShare taking every number below 10 as a fraction
MutantCoerceBelowTen(cell) ==
  IF cell.t = "str"
    THEN parseFloat(removeChars(cell.s, {"%", "$", ","}))
  ELSE IF cell.t = "num"
    THEN IF cell.n < 10 * Unit THEN Num(cell.n * 100) ELSE cell
  ELSE cell

\* the market-share cell made a number: a string is stripped of % $ , and
\* parsed; a number below 1 is taken as a fraction
CoerceMarketShare(cell) ==
  IF cell.t = "str"
    THEN parseFloat(removeChars(cell.s, {"%", "$", ","}))
  ELSE IF cell.t = "num"
    THEN IF cell.n < 1 * Unit THEN Num(cell.n * 100) ELSE cell
  ELSE cell

\* the range check: a value above 1000 becomes (value / 1000).toFixed(1),
\* which is a string.  Flooring the quotient to a unit does not change the
\* digit toFixed rounds to.
AdjustMarketShare(ms) ==
  IF ~isNaN(ms) /\ ms.n > 100 * Unit /\ ms.n > 1000 * Unit
    THEN Str(toFixed(ms.n \div 1000, 1))
    ELSE ms

ZeroMetrics ==
  [totalSales |-> 0, avgPrice |-> 0, daysOnMarket |-> 0, pricePerSqft |-> 0,
   closedListRatio |-> 0, totalOffices |-> 0, contributingAgents |-> 0]

\* the value read from a metric cell: a string is stripped and parsed
MetricFloat(cell, class) ==
  IF cell.t = "str" THEN parseFloat(removeChars(cell.s, class)) ELSE cell
MetricInt(cell, class) ==
  IF cell.t = "str" THEN parseInt(removeChars(cell.s, class)) ELSE cell

\* `row[c] !== undefined && row[c] !== null` and `!isNaN(value)`
MetricReadable(cell, value) == cell.t # "absent" /\ ~isNaN(value)

\* ExtractMetrics adding the total sales of the row to the ones it has
MutantExtractMetrics(m, cols, row) ==
  LET cs == {",", "$"}
      ps == {"%", "$", ","}
      ts == Cell(row, cols.totalSalesColIndex)
      ap == Cell(row, cols.avgPriceColIndex)
      dm == Cell(row, cols.domColIndex)
      pq == Cell(row, cols.pricePerSqftColIndex)
      cl == Cell(row, cols.closedListRatioColIndex)
      of == Cell(row, cols.totalOfficesColIndex)
      ag == Cell(row, cols.contributingAgentsColIndex)
      clv == MetricFloat(cl, ps)
  IN [totalSales |->
        IF MetricReadable(ts, MetricFloat(ts, cs))
          THEN m.totalSales + MetricFloat(ts, cs).n ELSE m.totalSales,
      avgPrice |->
        IF MetricReadable(ap, MetricFloat(ap, cs))
          THEN MetricFloat(ap, cs).n ELSE m.avgPrice,
      daysOnMarket |->
        IF MetricReadable(dm, MetricFloat(dm, cs))
          THEN MetricFloat(dm, cs).n ELSE m.daysOnMarket,
      pricePerSqft |->
        IF MetricReadable(pq, MetricFloat(pq, cs))
          THEN MetricFloat(pq, cs).n ELSE m.pricePerSqft,
      closedListRatio |->
        IF MetricReadable(cl, clv)
          THEN (IF clv.n < 1 * Unit THEN clv.n * 100 ELSE clv.n)
          ELSE m.closedListRatio,
      totalOffices |->
        IF MetricReadable(of, MetricInt(of, cs))
          THEN MetricInt(of, cs).n ELSE m.totalOffices,
      contributingAgents |->
        IF MetricReadable(ag, MetricInt(ag, cs))
          THEN MetricInt(ag, cs).n ELSE m.contributingAgents]

\* the metrics taken from a row of the subject brand
ExtractMetrics(m, cols, row) ==
  LET cs == {",", "$"}
      ps == {"%", "$", ","}
      ts == Cell(row, cols.totalSalesColIndex)
      ap == Cell(row, cols.avgPriceColIndex)
      dm == Cell(row, cols.domColIndex)
      pq == Cell(row, cols.pricePerSqftColIndex)
      cl == Cell(row, cols.closedListRatioColIndex)
      of == Cell(row, cols.totalOfficesColIndex)
      ag == Cell(row, cols.contributingAgentsColIndex)
      clv == MetricFloat(cl, ps)
  IN [totalSales |->
        IF MetricReadable(ts, MetricFloat(ts, cs))
          THEN MetricFloat(ts, cs).n ELSE m.totalSales,
      avgPrice |->
        IF MetricReadable(ap, MetricFloat(ap, cs))
          THEN MetricFloat(ap, cs).n ELSE m.avgPrice,
      daysOnMarket |->
        IF MetricReadable(dm, MetricFloat(dm, cs))
          THEN MetricFloat(dm, cs).n ELSE m.daysOnMarket,
      pricePerSqft |->
        IF MetricReadable(pq, MetricFloat(pq, cs))
          THEN MetricFloat(pq, cs).n ELSE m.pricePerSqft,
      closedListRatio |->
        IF MetricReadable(cl, clv)
          THEN (IF clv.n < 1 * Unit THEN clv.n * 100 ELSE clv.n)
          ELSE m.closedListRatio,
      totalOffices |->
        IF MetricReadable(of, MetricInt(of, cs))
          THEN MetricInt(of, cs).n ELSE m.totalOffices,
      contributingAgents |->
        IF MetricReadable(ag, MetricInt(ag, cs))
          THEN MetricInt(ag, cs).n ELSE m.contributingAgents]

\* IsSubjectRow matching the brand as it is written
MutantIsSubjectRow(cols, row, brand) ==
  /\ includes(brandToString(brand), <<"s", "o", "t", "h", "e", "b", "y">>)
  /\ RowLength(row) > Max2(cols.totalSalesColIndex,
                           Max2(cols.avgPriceColIndex, cols.domColIndex))

\* `brandLower.includes('sotheby') && row.length > Math.max(...)`
IsSubjectRow(cols, row, brand) ==
  /\ includes(toLowerCase(brandToString(brand)), <<"s", "o", "t", "h", "e", "b", "y">>)
  /\ RowLength(row) > Max2(cols.totalSalesColIndex,
                           Max2(cols.avgPriceColIndex, cols.domColIndex))

\* `marketShare.toFixed(1)` is a TypeError when marketShare is a string
PushRaises(ms) == ~isNaN(ms) /\ ms.t = "str"

\* PushBrokerage without the `!isNaN(marketShare)` check
MutantPushBrokerage(brokerages, brand, ms) ==
  Append(brokerages,
         [brand |-> trim(brandToString(brand)),
          marketShare |-> parseFloat(toFixed(ms.n, 1)).n])

\* brokerages.push({brand: ..., marketShare: parseFloat(ms.toFixed(1))})
PushBrokerage(brokerages, brand, ms) ==
  IF ~isNaN(ms)
    THEN Append(brokerages,
                [brand |-> trim(brandToString(brand)),
                 marketShare |-> parseFloat(toFixed(ms.n, 1)).n])
    ELSE brokerages

\* ProcessRow taking the metrics of a subject row only when its market
\* share is a number
MutantProcessRow(cols, acc, row) ==
  IF RowTooShort(cols, row) THEN acc
  ELSE
    LET brand == Cell(row, cols.brandColIndex)
        ms == AdjustMarketShare(
                CoerceMarketShare(Cell(row, cols.marketShareColIndex)))
    IN IF BrandMissing(brand) THEN acc
       ELSE
         LET m2 == IF IsSubjectRow(cols, row, brand) /\ ~isNaN(ms)
                     THEN ExtractMetrics(acc.metrics, cols, row)
                     ELSE acc.metrics
         IN IF PushRaises(ms)
              THEN [raised |-> TRUE, brokerages |-> acc.brokerages,
                    metrics |-> m2]
              ELSE [raised |-> FALSE,
                    brokerages |-> PushBrokerage(acc.brokerages, brand, ms),
                    metrics |-> m2]

\* one iteration of the row loop on the accumulator
\* [raised, brokerages, metrics]
ProcessRow(cols, acc, row) ==
  IF RowTooShort(cols, row) THEN acc
  ELSE
    LET brand == Cell(row, cols.brandColIndex)
        ms == AdjustMarketShare(
                CoerceMarketShare(Cell(row, cols.marketShareColIndex)))
    IN IF BrandMissing(brand) THEN acc
       ELSE
         LET m2 == IF IsSubjectRow(cols, row, brand)
                     THEN ExtractMetrics(acc.metrics, cols, row)
                     ELSE acc.metrics
         IN IF PushRaises(ms)
              THEN [raised |-> TRUE, brokerages |-> acc.brokerages,
                    metrics |-> m2]
              ELSE [raised |-> FALSE,
                    brokerages |-> PushBrokerage(acc.brokerages, brand, ms),
                    metrics |-> m2]

\* ------------------------------------------------------------------------
\* Ranking
\* ------------------------------------------------------------------------
\* InsertDesc putting x in front of the elements equal to it
MutantInsertDesc(sorted, x) ==
  LET p == IF \E k \in 1..Len(sorted) : sorted[k].marketShare <= x.marketShare
             THEN CHOOSE k \in 1..Len(sorted) :
                    /\ sorted[k].marketShare <= x.marketShare
                    /\ \A m \in 1..(k - 1) :
                         sorted[m].marketShare > x.marketShare
             ELSE Len(sorted) + 1
  IN SubSeq(sorted, 1, p - 1) \o <<x>> \o SubSeq(sorted, p, Len(sorted))

\* x put behind every element that the comparator
\* b.marketShare - a.marketShare does not order after it
InsertDesc(sorted, x) ==
  LET p == IF \E k \in 1..Len(sorted) : sorted[k].marketShare < x.marketShare
             THEN CHOOSE k \in 1..Len(sorted) :
                    /\ sorted[k].marketShare < x.marketShare
                    /\ \A m \in 1..(k - 1) :
                         sorted[m].marketShare >= x.marketShare
             ELSE Len(sorted) + 1
  IN SubSeq(sorted, 1, p - 1) \o <<x>> \o SubSeq(sorted, p, Len(sorted))

\* the elements from position k on put one by one into the sorted prefix
RECURSIVE SortFrom(_, _, _)
SortFrom(sorted, brokerages, k) ==
  IF k > Len(brokerages) THEN sorted
  ELSE Then(InsertDesc(sorted, brokerages[k]),
            LAMBDA s : SortFrom(s, brokerages, k + 1))

\* Array.prototype.sort((a, b) => b.marketShare - a.marketShare): stable
SortByShare(brokerages) == SortFrom(<<>>, brokerages, 1)

SothebysLabel == <<"R", "u", "s", "s", " ", "L", "y", "o", "n", " ", "S", "o", "t", "h", "e", "b", "y", "'", "s", " ", "I", "n", "t", "e", "r", "n", "a", "t", "i", "o", "n", "a", "l", " ", "R", "e", "a", "l", "t", "y">>
HomeSmartLabel == <<"H", "o", "m", "e", "S", "m", "a", "r", "t">>

\* NormalizeBrand matching the aliases without lower-casing the brand
MutantNormalizeBrand(brand) ==
  LET b1 == IF includes(brand, <<"s", "o", "t", "h", "e", "b", "y">>) THEN SothebysLabel ELSE brand
  IN IF includes(brand, <<"h", "o", "m", "e", "s", "m", "a", "r", "t">>) \/ includes(brand, <<"h", "o", "m", "e", " ", "s", "m", "a", "r", "t">>)
       THEN HomeSmartLabel
       ELSE b1

\* the label of one record after the brand normalisation
NormalizeBrand(brand) ==
  LET brandLower == toLowerCase(brand)
      b1 == IF includes(brandLower, <<"s", "o", "t", "h", "e", "b", "y">>) THEN SothebysLabel ELSE brand
  IN IF includes(brandLower, <<"h", "o", "m", "e", "s", "m", "a", "r", "t">>) \/ includes(brandLower, <<"h", "o", "m", "e", " ", "s", "m", "a", "r", "t">>)
       THEN HomeSmartLabel
       ELSE b1

NormalizeBrands(brokerages) ==
  [k \in 1..Len(brokerages) |->
     [brand |-> NormalizeBrand(brokerages[k].brand),
      marketShare |-> brokerages[k].marketShare]]

\* ------------------------------------------------------------------------
\* The formatted result
\* ------------------------------------------------------------------------
TopN == 10

\* slice that does not cut the array
MutantSlice(seq, n) == seq

\* Array.prototype.slice(0, n)
slice(seq, n) == SubSeq(seq, 1, Min2(n, Len(seq)))

\* Array.prototype.findIndex as a one-based position, 0 when none is found
findIndex(seq, P(_)) ==
  IF \E k \in 1..Len(seq) : P(seq[k])
    THEN CHOOSE k \in 1..Len(seq) : P(seq[k]) /\ \A m \in 1..(k - 1) : ~P(seq[m])
    ELSE 0

\* digits in groups of three
RECURSIVE GroupThousands(_)
GroupThousands(ds) ==
  IF Len(ds) <= 3 THEN ds
  ELSE GroupThousands(SubSeq(ds, 1, Len(ds) - 3)) \o <<",">>
       \o SubSeq(ds, Len(ds) - 2, Len(ds))

\* Intl.NumberFormat('en-US', {style: 'currency', currency: 'USD',
\* maximumFractionDigits: 0}).format(k)
formatCurrency(k) ==
  (IF k < 0 THEN <<"-">> ELSE <<>>) \o <<"$">>
  \o GroupThousands(NatToString((Abs(k) + Unit \div 2) \div Unit))

RECURSIVE SumShares(_)
SumShares(bs) ==
  IF bs = <<>> THEN 0 ELSE Head(bs).marketShare + SumShares(Tail(bs))

\* the summary lines of the insights
Insights(labels, dataValues, brokerages) ==
  LET sothebysIndex == findIndex(labels, LAMBDA l : includes(l, <<"S", "o", "t", "h", "e", "b", "y", "'", "s">>))
      sothebysShare == IF sothebysIndex >= 1 THEN dataValues[sothebysIndex] ELSE 0
      homeSmartIndex == findIndex(labels, LAMBDA l : l = HomeSmartLabel)
      homeSmartShare == IF homeSmartIndex >= 1 THEN dataValues[homeSmartIndex] ELSE 0
      sharePointDiff == toFixed(sothebysShare - homeSmartShare, 1)
  IN << <<"R", "u", "s", "s", " ", "L", "y", "o", "n", " ", "S", "o", "t", "h", "e", "b", "y", "'", "s", " ", "I", "n", "t", "e", "r", "n", "a", "t", "i", "o", "n", "a", "l", " ", "R", "e", "a", "l", "t", "y", " ", "h", "a", "s", " ">>
          \o toFixed(sothebysShare, 1) \o <<"%", " ", "m", "a", "r", "k", "e", "t", " ", "s", "h", "a", "r", "e">>,
        IF homeSmartShare > 0
          THEN sharePointDiff \o <<" ", "p", "e", "r", "c", "e", "n", "t", "a", "g", "e", " ", "p", "o", "i", "n", "t", "s", " ">>
               \o (IF parseFloat(sharePointDiff).n > 0
                     THEN <<"a", "h", "e", "a", "d", " ", "o", "f">> ELSE <<"b", "e", "h", "i", "n", "d">>)
               \o <<" ", "n", "e", "a", "r", "e", "s", "t", " ", "c", "o", "m", "p", "e", "t", "i", "t", "o", "r", " ", "(", "H", "o", "m", "e", "S", "m", "a", "r", "t", " ", "a", "t", " ">>
               \o toFixed(homeSmartShare, 1) \o <<"%", ")">>
          ELSE <<"L", "e", "a", "d", "i", "n", "g", " ", "p", "o", "s", "i", "t", "i", "o", "n", " ", "i", "n", " ", "t", "h", "e", " ", "m", "a", "r", "k", "e", "t">>,
        <<"P", "o", "s", "i", "t", "i", "o", "n", " ", "i", "n", " ", "t", "h", "e", " ", "A", "r", "i", "z", "o", "n", "a", " ", "l", "u", "x", "u", "r", "y", " ", "r", "e", "a", "l", " ", "e", "s", "t", "a", "t", "e", " ", "m", "a", "r", "k", "e", "t">>,
        <<"T", "o", "p", " ", "3", " ", "b", "r", "o", "k", "e", "r", "a", "g", "e", "s", " ", "c", "o", "n", "t", "r", "o", "l", " ">>
          \o toFixed(SumShares(slice(brokerages, 3)), 1)
          \o <<"%", " ", "o", "f", " ", "t", "h", "e", " ", "m", "a", "r", "k", "e", "t">> >>

\* AdditionalMetrics with the two optional fields always set
MutantAdditionalMetrics(m) ==
  [totalSales |-> Num(m.totalSales),
   averagePrice |-> Str(formatCurrency(m.avgPrice)),
   daysOnMarket |-> parseFloat(toFixed(m.daysOnMarket, 1)),
   totalOffices |-> Num(m.totalOffices),
   contributingAgents |-> Num(m.contributingAgents),
   pricePerSqft |-> Str(<<"$">> \o toFixed(m.pricePerSqft, 0)),
   closedListRatio |-> Str(toFixed(m.closedListRatio, 1) \o <<"%">>)]

\* the additionalMetrics object; a field that is not set is Absent
AdditionalMetrics(m) ==
  [totalSales |-> Num(m.totalSales),
   averagePrice |-> Str(formatCurrency(m.avgPrice)),
   daysOnMarket |-> parseFloat(toFixed(m.daysOnMarket, 1)),
   totalOffices |-> Num(m.totalOffices),
   contributingAgents |-> Num(m.contributingAgents),
   pricePerSqft |->
     IF m.pricePerSqft > 0
       THEN Str(<<"$">> \o toFixed(m.pricePerSqft, 0)) ELSE Absent,
   closedListRatio |->
     IF m.closedListRatio > 0
       THEN Str(toFixed(m.closedListRatio, 1) \o <<"%">>) ELSE Absent]

\* the object extractMarketShareData returns (the colours, the title and
\* the description, which nothing reads back, are left out)
FormatResult(brokerages, m) ==
  LET top == slice(brokerages, TopN)
      labels == [k \in 1..Len(top) |-> top[k].brand]
      dataValues == [k \in 1..Len(top) |-> top[k].marketShare]
  IN [labels |-> labels,
      data |-> dataValues,
      summary |-> Insights(labels, dataValues, brokerages),
      additionalMetrics |-> AdditionalMetrics(m)]

NoResult ==
  [labels |-> <<>>, data |-> <<>>, summary |-> <<>>,
   additionalMetrics |-> AdditionalMetrics(ZeroMetrics)]


\* ------------------------------------------------------------------------
\* The presentation layer (applyTemplate, Visualization)
\* ------------------------------------------------------------------------
\* data.labels.map((label, i) => ({label, value: data.datasets[0].data[i]}))
normalizedData(res) ==
  [k \in 1..Len(res.labels) |-> [label |-> res.labels[k], value |-> res.data[k]]]

\* [...items].sort((a, b) => b.value - a.value): stable
SortByValue(items) ==
  LET sorted == SortByShare([k \in 1..Len(items) |->
                               [brand |-> items[k].label,
                                marketShare |-> items[k].value]])
  IN [k \in 1..Len(sorted) |->
        [label |-> sorted[k].brand, value |-> sorted[k].marketShare]]

\* the items of the result in the order the presentation layer shows them
sortedData(res) == SortByValue(normalizedData(res))

RECURSIVE SumValues(_)
SumValues(items) ==
  IF items = <<>> THEN 0 ELSE Head(items).value + SumValues(Tail(items))

\* (part / whole * 100).toFixed(1), for sums of shares of one decimal place
PercentageText(part, whole) ==
  LET tenth == Unit \div 10
      p == part \div tenth
      w == whole \div tenth
  IN IF w = 0 THEN <<"N", "a", "N">>
     ELSE toFixed(((2 * 1000 * p + w) \div (2 * w)) * tenth, 1)

\* the three insights generateTemplateInsights gives for every template
generateTemplateInsights(data) ==
  LET sothebysPos == findIndex(data, LAMBDA item : includes(item.label, <<"S", "o", "t", "h", "e", "b", "y", "'", "s">>))
      sothebysValue == IF sothebysPos >= 1 THEN data[sothebysPos].value ELSE 0
      competitorPos == findIndex(SortByValue(data),
                                 LAMBDA item : ~includes(item.label, <<"S", "o", "t", "h", "e", "b", "y", "'", "s">>))
      topCompetitor == SortByValue(data)[competitorPos]
      totalValue == SumValues(data)
      top3Values == SumValues(slice(SortByValue(data), 3))
  IN << <<"R", "u", "s", "s", " ", "L", "y", "o", "n", " ", "S", "o", "t", "h", "e", "b", "y", "'", "s", " ", "I", "n", "t", "e", "r", "n", "a", "t", "i", "o", "n", "a", "l", " ", "R", "e", "a", "l", "t", "y", " ", "h", "a", "s", " ">>
          \o toFixed(sothebysValue, 1) \o <<"%", " ", "m", "a", "r", "k", "e", "t", " ", "s", "h", "a", "r", "e">>,
        IF sothebysPos >= 1 /\ competitorPos >= 1
          THEN LET valueGap == toFixed(sothebysValue - topCompetitor.value, 1)
               IN valueGap \o <<" ", "p", "e", "r", "c", "e", "n", "t", "a", "g", "e", " ", "p", "o", "i", "n", "t", "s", " ">>
                  \o (IF parseFloat(valueGap).n > 0
                        THEN <<"a", "h", "e", "a", "d", " ", "o", "f">> ELSE <<"b", "e", "h", "i", "n", "d">>)
                  \o <<" ", "n", "e", "a", "r", "e", "s", "t", " ", "c", "o", "m", "p", "e", "t", "i", "t", "o", "r", " ", "(">> \o topCompetitor.label
                  \o <<" ", "a", "t", " ">> \o toFixed(topCompetitor.value, 1) \o <<"%", ")">>
          ELSE <<"C", "o", "m", "p", "e", "t", "i", "t", "i", "v", "e", " ", "p", "o", "s", "i", "t", "i", "o", "n", " ", "i", "n", " ", "t", "h", "e", " ", "r", "e", "a", "l", " ", "e", "s", "t", "a", "t", "e", " ", "m", "a", "r", "k", "e", "t">>,
        <<"T", "o", "p", " ", "3", " ", "b", "r", "o", "k", "e", "r", "a", "g", "e", "s", " ", "c", "o", "n", "t", "r", "o", "l", " ">>
          \o PercentageText(top3Values, totalValue)
          \o <<"%", " ", "o", "f", " ", "t", "h", "e", " ", "m", "a", "r", "k", "e", "t">> >>

\* the labels and the values of the pie chart: the top 5 and "All Others"
preparePieChartData(sorted) ==
  LET top5 == slice(sorted, 5)
      othersValue == IF Len(sorted) > 5
                       THEN SumValues(SubSeq(sorted, 6, Len(sorted))) ELSE 0
  IN [labels |-> [k \in 1..Len(top5) |-> top5[k].label]
                 \o (IF othersValue > 0 THEN << <<"A", "l", "l", " ", "O", "t", "h", "e", "r", "s">> >> ELSE <<>>),
      data |-> [k \in 1..Len(top5) |-> top5[k].value]
               \o (IF othersValue > 0
                     THEN <<parseFloat(toFixed(othersValue, 1)).n>> ELSE <<>>)]
\* ------------------------------------------------------------------------
\* Input tables
\* ------------------------------------------------------------------------
HdrI ==
  MkRow(9, (1 :> Str(<<"B", "r", "a", "n", "d">>)) @@ (6 :> Str(<<"T", "o", "t", "a", "l", " ", "#">>))
           @@ (8 :> Str(<<"M", "k", "t", " ", "%">>)))
HdrIM ==
  MkRow(13, (1 :> Str(<<"B", "r", "a", "n", "d">>)) @@ (8 :> Str(<<"M", "K", "T", " ", "%">>))
            @@ (12 :> Str(<<"$", " ", "V", "o", "l", " ", "P", "e", "r", " ", "P", "r", "o", "d", " ", "A", "g", "e", "n", "t">>)))
HdrM ==
  MkRow(17, (1 :> Str(<<"B", "r", "o", "k", "e", "r", "a", "g", "e">>)) @@ (9 :> Str(<<"D", "O", "M">>))
            @@ (10 :> Str(<<"A", "v", "g", " ", "P", "r", "i", "c", "e">>))
            @@ (12 :> Str(<<"$", " ", "V", "o", "l", " ", "P", "e", "r", " ", "P", "r", "o", "d", " ", "A", "g", "e", "n", "t">>))
            @@ (13 :> Str(<<"P", "r", "i", "c", "e", "/", "S", "q", "F", "t">>))
            @@ (14 :> Str(<<"C", "l", "o", "s", "e", "d", "/", "L", "i", "s", "t", " ", "P", "r", "i", "c", "e">>))
            @@ (15 :> Str(<<"#", " ", "O", "f", "f", "i", "c", "e", "s">>))
            @@ (16 :> Str(<<"C", "o", "n", "t", "r", "i", "b", "u", "t", "i", "n", "g", " ", "A", "g", "e", "n", "t", "s">>)))
HdrTitle == MkRow(1, (0 :> Str(<<"L", "u", "x", "u", "r", "y", " ", "R", "e", "p", "o", "r", "t", " ", "2", "0", "2", "5">>)))
HdrG ==
  MkRow(6, (0 :> Str(<<"C", "o", "m", "p", "a", "n", "y">>)) @@ (5 :> Str(<<"M", "a", "r", "k", "e", "t", " ", "S", "h", "a", "r", "e", " ", "(", "%", ")">>)))

\* the rows a table starts with
HeaderLayouts ==
  { <<>>, <<HdrI>>, <<HdrM>>, <<HdrIM>>, <<HdrM, HdrI>>, <<HdrI, HdrM>>,
    <<HdrTitle>>, <<HdrTitle, HdrG>> }

RowSothebys ==
  MkRow(20, (0 :> Dec(1, 0)) @@ (1 :> Str(<<"S", "o", "t", "h", "e", "b", "y", "'", "s", " ", "R", "e", "a", "l", "t", "y">>))
            @@ (6 :> Dec(42, 0)) @@ (8 :> Str(<<"1", "5", ".", "6", "%">>))
            @@ (9 :> Str(<<"3", "5">>)) @@ (10 :> Str(<<"$", "1", ",", "2", "5", "0">>))
            @@ (12 :> Dec(0, 1560)) @@ (13 :> Str(<<"$", "3", "1", "0">>))
            @@ (14 :> Dec(0, 9800)) @@ (15 :> Str(<<"1", "2">>))
            @@ (16 :> Str(<<"8", "5">>)) @@ (19 :> Dec(7, 0)))
RowHomeSmart ==
  MkRow(13, (0 :> Dec(2, 0)) @@ (1 :> Str(<<"H", "o", "m", "e", "S", "m", "a", "r", "t">>))
            @@ (8 :> Str(<<"9", ".", "0", "%">>)) @@ (12 :> Dec(0, 900)))
RowHomeSmartElite ==
  MkRow(13, (1 :> Str(<<" ", "h", "o", "m", "e", " ", "s", "m", "a", "r", "t", " ", "E", "l", "i", "t", "e", " ">>))
            @@ (8 :> Dec(0, 1234)) @@ (12 :> Str(<<"1", "2", ".", "3", "4">>)))
RowSmallShare ==
  MkRow(13, (0 :> Dec(4, 0)) @@ (1 :> Str(<<"R", "e", "a", "l", "t", "y", " ", "O", "N", "E", " ", "G", "r", "o", "u", "p">>))
            @@ (8 :> Str(<<"0", ".", "5", "%">>)) @@ (12 :> Dec(0, 50)))
RowRawCount ==
  MkRow(13, (0 :> Dec(5, 0)) @@ (1 :> Str(<<"C", "o", "l", "d", "w", "e", "l", "l", " ", "B", "a", "n", "k", "e", "r">>))
            @@ (8 :> Dec(1560, 0)) @@ (12 :> Str(<<"1", ",", "5", "6", "0">>)))
RowOverHundred ==
  MkRow(13, (0 :> Dec(6, 0)) @@ (1 :> Str(<<"R", "E", "/", "M", "A", "X">>))
            @@ (8 :> Dec(150, 0)) @@ (12 :> Str(<<"1", "5", "0">>)))
RowNoShare ==
  MkRow(14, (1 :> Str(<<"e", "X", "p", " ", "R", "e", "a", "l", "t", "y">>)) @@ (8 :> Str(<<"n", "/", "a">>))
            @@ (13 :> Str(<<"x">>)))
RowNoBrand ==
  MkRow(13, (0 :> Dec(0, 0)) @@ (1 :> Str(<<>>))
            @@ (8 :> Str(<<"7", ".", "5", "%">>)) @@ (12 :> Dec(7, 5000)))
RowShort ==
  MkRow(2, (0 :> Dec(9, 0)) @@ (1 :> Str(<<"K", "e", "l", "l", "e", "r", " ", "W", "i", "l", "l", "i", "a", "m", "s">>)))
RowBothAliases ==
  MkRow(13, (0 :> Dec(11, 0)) @@ (1 :> Str(<<"S", "o", "t", "h", "e", "b", "y", " ", "H", "o", "m", "e", "S", "m", "a", "r", "t">>))
            @@ (8 :> Str(<<"9", ".", "0", "%">>)) @@ (12 :> Dec(9, 0)))
RowBlankBrand ==
  MkRow(13, (1 :> Str(<<" ", " ", " ">>)) @@ (8 :> Str(<<"3", ".", "2", "%">>))
            @@ (12 :> Dec(3, 2000)))

\* the data rows a table is made of
DataRows ==
  { RowSothebys, RowHomeSmart, RowHomeSmartElite, RowSmallShare, RowRawCount,
    RowOverHundred, RowNoShare, RowNoBrand, RowShort, NoRow, RowBothAliases,
    RowBlankBrand }

\* the k-th row of a block of plain data rows; their shares are above the
\* shares of DataRows, are not in order and some are equal
FillRow(k) ==
  MkRow(13, (0 :> Dec(100 + k, 0))
            @@ (1 :> Str(<<"A", "g", "e", "n", "c", "y", " ">> \o NatToString(k)))
            @@ (8 :> Dec(20 + ((k * 7) % 6), 2400))
            @@ (12 :> Str(NatToString(30 + ((k * 4) % 7)) \o <<".", "5", "%">>)))
FillBlock == [k \in 1..MaxFill |-> FillRow(k)]

SeqsUpTo(S, n) == UNION { [1..k -> S] : k \in 0..n }

ShortTables ==
  { h \o b : h \in HeaderLayouts, b \in SeqsUpTo(DataRows, MaxBody) }
LongTables ==
  { h \o FillBlock \o b : h \in HeaderLayouts, b \in SeqsUpTo(DataRows, 1) }

\* a second header row: every field at another column than in HdrM, and
\* two brand cells in the one row
HdrAlt ==
  MkRow(12, (0 :> Str(<<"B", "r", "a", "n", "d", " ", "N", "a", "m", "e">>)) @@ (2 :> Str(<<"F", "i", "r", "m">>))
            @@ (3 :> Str(<<"T", "o", "t", "a", "l", " ", "#">>)) @@ (4 :> Str(<<"A", "v", "e", "r", "a", "g", "e", " ", "S", "a", "l", "e", "s">>))
            @@ (5 :> Str(<<"D", "a", "y", "s", " ", "o", "n", " ", "M", "a", "r", "k", "e", "t">>))
            @@ (6 :> Str(<<"P", "r", "i", "c", "e", " ", "p", "e", "r", " ", "S", "q", " ", "F", "t">>))
            @@ (7 :> Str(<<"S", "a", "l", "e", "/", "L", "i", "s", "t">>))
            @@ (9 :> Str(<<"T", "o", "t", "a", "l", " ", "O", "f", "f", "i", "c", "e", "s">>))
            @@ (10 :> Str(<<"C", "o", "n", "t", "r", "i", "b", "u", "t", "i", "n", "g", " ", "A", "g", "e", "n", "t", " ", "C", "o", "u", "n", "t">>)))
\* a data row laid out as HdrAlt has it
RowAlt ==
  MkRow(13, (2 :> Str(<<"S", "o", "t", "h", "e", "b", "y", "'", "s", " ", "A", "l", "t">>)) @@ (3 :> Dec(5, 0))
            @@ (4 :> Str(<<"$", "9", "0", "0">>)) @@ (5 :> Dec(12, 0))
            @@ (6 :> Dec(250, 0)) @@ (7 :> Dec(0, 9700))
            @@ (9 :> Dec(3, 0)) @@ (10 :> Dec(21, 0))
            @@ (12 :> Dec(6, 6000)))
\* HdrM, n plain rows, HdrAlt (the row of index n + 1), then a data row or
\* one more header row
HeaderTables ==
  { <<HdrM>> \o SubSeq(FillBlock, 1, n) \o <<HdrAlt>> \o b :
      n \in 0..MaxFill, b \in SeqsUpTo({RowAlt, RowSothebys, HdrG}, 1) }

\* a second row of the subject brand: no totalSales cell, an average price
\* that is not a number, a pricePerSqft of zero, a ratio above 1
RowSothebysSecond ==
  MkRow(17, (1 :> Str(<<"S", "O", "T", "H", "E", "B", "Y", "'", "S", " ", "S", "c", "o", "t", "t", "s", "d", "a", "l", "e">>)) @@ (8 :> Str(<<"4", ".", "4", "%">>))
            @@ (9 :> Dec(41, 5000)) @@ (10 :> Str(<<"n", "/", "a">>))
            @@ (12 :> Dec(4, 4000)) @@ (13 :> Dec(0, 0))
            @@ (14 :> Str(<<"1", "0", "1", ".", "5", "%">>)) @@ (15 :> Str(<<"3", " ", "o", "f", "f", "i", "c", "e", "s">>)))
\* a row of the subject brand that ends before the average-price column
RowSothebysShort ==
  MkRow(10, (1 :> Str(<<"S", "o", "t", "h", "e", "b", "y", "'", "s", " ", "E", "a", "s", "t">>)) @@ (6 :> Dec(17, 0))
            @@ (8 :> Str(<<"2", ".", "2", "%">>)) @@ (9 :> Dec(20, 0)))
\* a header row of nine columns with the two optional metrics, and a row of
\* the subject brand laid out as it has it
HdrNarrow ==
  MkRow(9, (1 :> Str(<<"B", "r", "a", "n", "d">>)) @@ (2 :> Str(<<"P", "r", "i", "c", "e", "/", "S", "q", "F", "t">>))
           @@ (3 :> Str(<<"C", "l", "o", "s", "e", "d", "/", "L", "i", "s", "t", " ", "P", "r", "i", "c", "e">>)) @@ (8 :> Str(<<"M", "k", "t", " ", "%">>)))
RowSothebysNarrow ==
  MkRow(9, (1 :> Str(<<"S", "o", "t", "h", "e", "b", "y", "'", "s", " ", "W", "e", "s", "t">>)) @@ (2 :> Str(<<"$", "3", "1", "0">>))
           @@ (3 :> Dec(0, 9800)) @@ (8 :> Str(<<"5", ".", "5", "%">>)))
SubjectRows ==
  { RowSothebys, RowSothebysSecond, RowSothebysShort, RowSothebysNarrow }
MetricTables ==
  { <<h>> \o b : h \in {HdrI, HdrM, HdrNarrow},
                 b \in SeqsUpTo(SubjectRows, MaxBody) }

\* a row of the subject brand whose market-share cells are not numbers
RowSothebysNoShare ==
  MkRow(13, (1 :> Str(<<"S", "o", "t", "h", "e", "b", "y", "'", "s", " ", "N", "o", "r", "t", "h">>)) @@ (6 :> Dec(9, 0))
            @@ (8 :> Str(<<"n", "/", "a">>)) @@ (9 :> Dec(33, 0))
            @@ (10 :> Str(<<"$", "7", "0", "0">>)) @@ (12 :> Str(<<"n", "/", "a">>)))
\* a title row, n plain rows, the header row, then rows of the subject
TitledTables ==
  { <<HdrTitle>> \o SubSeq(FillBlock, 1, n) \o <<h>> \o b :
      n \in 0..1, h \in {HdrI, HdrM},
      b \in SeqsUpTo({RowSothebys, RowSothebysNoShare}, 2) }

Tables ==
  ShortTables \cup LongTables \cup HeaderTables \cup MetricTables
  \cup TitledTables

\* a file: readable as a table, unreadable (the reader reports an error),
\* or bytes that XLSX.read cannot parse
Files ==
  { [kind |-> "table", rows |-> d] : d \in Tables }
  \cup { [kind |-> "unreadable", rows |-> <<>>],
         [kind |-> "corrupt", rows |-> <<>>] }

\* ------------------------------------------------------------------------
\* processFile and extractMarketShareData as a state machine
\* ------------------------------------------------------------------------
\* the output of a run as the rows of a fresh table: a header row, then
\* one row per record with the label in the brand column and the value as
\* a number in the market-share column (layout "I": "Mkt %" at index 8,
\* layout "M": "$ Vol Per Prod Agent" at index 12)
FreshHeader(layout) ==
  IF layout = "I"
    THEN MkRow(9, (1 :> Str(<<"B", "r", "a", "n", "d">>)) @@ (8 :> Str(<<"M", "k", "t", " ", "%">>)))
    ELSE MkRow(13, (1 :> Str(<<"B", "r", "a", "n", "d">>))
                   @@ (12 :> Str(<<"$", " ", "V", "o", "l", " ", "P", "e", "r", " ", "P", "r", "o", "d", " ", "A", "g", "e", "n", "t">>)))
FreshShareColumn(layout) == IF layout = "I" THEN 8 ELSE 12
OutputAsTable(res, layout) ==
  <<FreshHeader(layout)>>
  \o [k \in 1..Len(res.labels) |->
        MkRow(FreshShareColumn(layout) + 1,
              (1 :> Str(res.labels[k]))
              @@ (FreshShareColumn(layout) :> Num(res.data[k])))]

\* the table without the row of (zero-based) index k
WithoutRow(data, k) == SubSeq(data, 1, k) \o SubSeq(data, k + 2, Len(data))

VARIABLES
  file,        \* the file handed to processFile
  pc,          \* the place of the invocation
  jsonData,    \* the rows sheet_to_json returned
  i,           \* the loop index
  cols,        \* the column indices
  brokerages,  \* the records
  metrics,     \* the metrics of the subject brand
  outcome,     \* the promise: pending, resolved or rejected
  result,      \* the value the promise resolved with
  run,         \* 1 for the run on the input, 2 for a run that follows it
  mode,        \* what the second run is given: "output" or "without"
  first        \* what the first run ended with

\* the state of the App and FileUploader components
VARIABLES
  isLoading,          \* App: isLoading
  processedData,      \* App: processedData, Null or Some(labels and data)
  insights,           \* App: insights, Null or Some(summary)
  additionalMetrics,  \* App: additionalMetrics, Null or Some(metrics)
  error,              \* App: error, Null or Some(message)
  files,              \* FileUploader: files, the selected files
  uploadError,        \* FileUploader: uploadError, Null or Some(message)
  fileProgress,       \* FileUploader: fileProgress
  intervals,          \* the running progress intervals, each with the
                      \* files its handleUpload closed over
  timeouts,           \* the pending setTimeout callbacks, each with its files
  inflight,           \* the files of the handleFilesUploaded invocations
                      \* that wait for processFile
  userActions,        \* the number of drops and clicks of the user
  clicks,             \* the number of clicks on Generate Visualization
  afterReset,         \* Reset was clicked and Generate Visualization was
                      \* not clicked since
  lastDone            \* how the invocation that completed last ended

app ==
  <<isLoading, processedData, insights, additionalMetrics, error, files,
    uploadError, fileProgress, intervals, timeouts, inflight, userActions,
    clicks, afterReset, lastDone>>

vars ==
  <<file, pc, jsonData, i, cols, brokerages, metrics, outcome, result,
    run, mode, first, app>>
harness == <<run, mode, first>>

\* null, and a value that is not null
Null == <<>>
Some(x) == <<x>>

\* the components as they are mounted
AppInit ==
  /\ isLoading = FALSE
  /\ processedData = Null
  /\ insights = Null
  /\ additionalMetrics = Null
  /\ error = Null
  /\ files = <<>>
  /\ uploadError = Null
  /\ fileProgress = 0
  /\ intervals = <<>>
  /\ timeouts = <<>>
  /\ inflight = <<>>
  /\ userActions = 0
  /\ clicks = 0
  /\ afterReset = FALSE
  /\ lastDone = Null

NoFirst ==
  [cols |-> DefaultColumns, brokerages |-> <<>>, labels |-> <<>>,
   data |-> <<>>]

Init ==
  /\ file \in Files
  /\ pc = "read"
  /\ jsonData = <<>>
  /\ i = 0
  /\ cols = DefaultColumns
  /\ brokerages = <<>>
  /\ metrics = ZeroMetrics
  /\ outcome = "pending"
  /\ result = NoResult
  /\ run = 1
  /\ mode = "none"
  /\ first = NoFirst
  /\ AppInit

\* reader.onerror: reject
ReaderOnError ==
  /\ pc = "read" /\ file.kind = "unreadable"
  /\ pc' = "done" /\ outcome' = "rejected"
  /\ UNCHANGED <<file, jsonData, i, cols, brokerages, metrics, result>>
  /\ UNCHANGED <<harness, app>>

\* reader.onload when XLSX.read throws: the catch rejects
ReaderOnLoadUnparsable ==
  /\ pc = "read" /\ file.kind = "corrupt"
  /\ pc' = "done" /\ outcome' = "rejected"
  /\ UNCHANGED <<file, jsonData, i, cols, brokerages, metrics, result>>
  /\ UNCHANGED <<harness, app>>

\* reader.onload: the sheet is read and extractMarketShareData is entered
ReaderOnLoad ==
  /\ pc = "read" /\ file.kind = "table"
  /\ jsonData' = file.rows
  /\ cols' = DefaultColumns
  /\ i' = 0
  /\ pc' = "detect"
  /\ UNCHANGED <<file, brokerages, metrics, outcome, result>>
  /\ UNCHANGED <<harness, app>>

\* one iteration of the header loop
DetectStep ==
  /\ pc = "detect" /\ i < Min2(ScanRows, Len(jsonData))
  /\ cols' = DetectRow(cols, jsonData[i + 1])
  /\ i' = i + 1
  /\ UNCHANGED <<file, pc, jsonData, brokerages, metrics, outcome, result>>
  /\ UNCHANGED <<harness, app>>

\* DetectDone with the row loop starting at row 0
MutantDetectDone ==
  /\ pc = "detect" /\ i >= Min2(ScanRows, Len(jsonData))
  /\ pc' = "rows"
  /\ i' = 0
  /\ brokerages' = <<>>
  /\ metrics' = ZeroMetrics
  /\ UNCHANGED <<file, jsonData, cols, outcome, result>>
  /\ UNCHANGED <<harness, app>>

\* the header loop ends; the row loop starts at row 1
DetectDone ==
  /\ pc = "detect" /\ i >= Min2(ScanRows, Len(jsonData))
  /\ pc' = "rows"
  /\ i' = 1
  /\ brokerages' = <<>>
  /\ metrics' = ZeroMetrics
  /\ UNCHANGED <<file, jsonData, cols, outcome, result>>
  /\ UNCHANGED <<harness, app>>

\* one iteration of the row loop; a TypeError leaves the function and the
\* catch of onload rejects
RowStep ==
  /\ pc = "rows" /\ i < Len(jsonData)
  /\ LET acc == ProcessRow(cols,
                           [raised |-> FALSE, brokerages |-> brokerages,
                            metrics |-> metrics],
                           jsonData[i + 1])
     IN /\ brokerages' = acc.brokerages
        /\ metrics' = acc.metrics
        /\ IF acc.raised
             THEN pc' = "done" /\ outcome' = "rejected" /\ i' = i
             ELSE pc' = pc /\ outcome' = outcome /\ i' = i + 1
  /\ UNCHANGED <<file, jsonData, cols, result>>
  /\ UNCHANGED <<harness, app>>

\* the row loop ends
RowsDone ==
  /\ pc = "rows" /\ i >= Len(jsonData)
  /\ pc' = "sort"
  /\ UNCHANGED <<file, jsonData, i, cols, brokerages, metrics, outcome, result>>
  /\ UNCHANGED <<harness, app>>

\* brokerages.sort(...) before the brand normalisation
SortFirst ==
  /\ pc = "sort"
  /\ brokerages' = SortByShare(brokerages)
  /\ pc' = "normalize"
  /\ UNCHANGED <<file, jsonData, i, cols, metrics, outcome, result>>
  /\ UNCHANGED <<harness, app>>

\* the brand normalisation loop
NormalizePass ==
  /\ pc = "normalize"
  /\ brokerages' = NormalizeBrands(brokerages)
  /\ pc' = "resort"
  /\ UNCHANGED <<file, jsonData, i, cols, metrics, outcome, result>>
  /\ UNCHANGED <<harness, app>>

\* brokerages.sort(...) after the brand normalisation
SortSecond ==
  /\ pc = "resort"
  /\ brokerages' = SortByShare(brokerages)
  /\ pc' = "format"
  /\ UNCHANGED <<file, jsonData, i, cols, metrics, outcome, result>>
  /\ UNCHANGED <<harness, app>>

\* the result is built and returned; onload resolves the promise with it
ReturnResult ==
  /\ pc = "format"
  /\ result' = FormatResult(brokerages, metrics)
  /\ outcome' = "resolved"
  /\ pc' = "done"
  /\ UNCHANGED <<file, jsonData, i, cols, brokerages, metrics>>
  /\ UNCHANGED <<harness, app>>

Next ==
  \/ ReaderOnError
  \/ ReaderOnLoadUnparsable
  \/ ReaderOnLoad
  \/ DetectStep
  \/ DetectDone
  \/ RowStep
  \/ RowsDone
  \/ SortFirst
  \/ NormalizePass
  \/ SortSecond
  \/ ReturnResult

Spec == Init /\ [][Next]_vars


\* ------------------------------------------------------------------------
\* A second run, on a table made from the first run
\* ------------------------------------------------------------------------
\* the claim's rows that yield no record: absent, too short, no brand, or
\* a market-share cell that is not a number
BrandEmptyOrAbsent(cell) ==
  cell.t = "absent" \/ (cell.t = "str" /\ cell.s = <<>>)
ShareIsNumber(cell) ==
  \/ cell.t = "num"
  \/ (cell.t = "str"
      /\ parseFloat(removeChars(cell.s, {"%", "$", ","})).t = "num")
IsSkippedRow(c, row) ==
  \/ row.nil
  \/ RowLength(row) <= Max2(c.brandColIndex, c.marketShareColIndex)
  \/ BrandEmptyOrAbsent(Cell(row, c.brandColIndex))
  \/ ~ShareIsNumber(Cell(row, c.marketShareColIndex))

StartSecondRun(rows, how) ==
  /\ file' = [kind |-> "table", rows |-> rows]
  /\ pc' = "read"
  /\ jsonData' = <<>>
  /\ i' = 0
  /\ cols' = DefaultColumns
  /\ brokerages' = <<>>
  /\ metrics' = ZeroMetrics
  /\ outcome' = "pending"
  /\ result' = NoResult
  /\ run' = 2
  /\ mode' = how
  /\ first' = [cols |-> cols, brokerages |-> brokerages,
               labels |-> result.labels, data |-> result.data]
  /\ UNCHANGED app

\* the ranked output of the first run is processed as a fresh table
RerunOnOutput(layout) ==
  /\ pc = "done" /\ run = 1 /\ outcome = "resolved"
  /\ StartSecondRun(OutputAsTable(result, layout), "output")

\* the table is processed again without one of its skipped data rows
RerunWithoutRow(k) ==
  /\ pc = "done" /\ run = 1 /\ outcome = "resolved"
  /\ k \in 1..(Len(jsonData) - 1)
  /\ IsSkippedRow(cols, jsonData[k + 1])
  /\ StartSecondRun(WithoutRow(jsonData, k), "without")

NextRerun ==
  \/ Next
  \/ \E layout \in {"I", "M"} : RerunOnOutput(layout)
  \/ \E k \in 1..(MaxFill + MaxBody + 2) : RerunWithoutRow(k)

SpecRerun == Init /\ [][NextRerun]_vars


\* ------------------------------------------------------------------------
\* extractMarketShareData as one function: what reader.onload computes
\* ------------------------------------------------------------------------
\* the header loop from the row of (one-based) position k on
RECURSIVE DetectFrom(_, _, _)
DetectFrom(c, data, k) ==
  IF k > Min2(ScanRows, Len(data)) THEN c
  ELSE Then(DetectRow(c, data[k]), LAMBDA c2 : DetectFrom(c2, data, k + 1))

\* the row loop from the row of (one-based) position k on; a TypeError
\* ends it
RECURSIVE RowsFrom(_, _, _, _)
RowsFrom(c, acc, data, k) ==
  IF k > Len(data) \/ acc.raised THEN acc
  ELSE Then(ProcessRow(c, acc, data[k]),
            LAMBDA a : RowsFrom(c, a, data, k + 1))

\* the two sorts, the brand normalisation between them and the result
Ranked(records, m) ==
  Then(SortByShare(records), LAMBDA s1 :
    Then(NormalizeBrands(s1), LAMBDA n :
      Then(SortByShare(n), LAMBDA s2 : FormatResult(s2, m))))

\* [raised, value]: the extraction throws, or returns value
extractMarketShareData(data) ==
  Then(DetectFrom(DefaultColumns, data, 1), LAMBDA c :
    Then(RowsFrom(c, [raised |-> FALSE, brokerages |-> <<>>,
                      metrics |-> ZeroMetrics], data, 2),
         LAMBDA acc :
           IF acc.raised
             THEN [raised |-> TRUE, value |-> NoResult]
             ELSE [raised |-> FALSE,
                   value |-> Ranked(acc.brokerages, acc.metrics)]))

\* ------------------------------------------------------------------------
\* The application: FileUploader and App.handleFilesUploaded
\* ------------------------------------------------------------------------
MaxUserActions == 4

\* the files the user has: valid is "ok", or why onDrop turns the file down
UserFile(kind, rows, valid) == [kind |-> kind, rows |-> rows, valid |-> valid]
GoodFile == UserFile("table", <<HdrI, RowSothebys, RowHomeSmart>>, "ok")
OtherGoodFile == UserFile("table", <<HdrI, RowSmallShare>>, "ok")
RaisingFile == UserFile("table", <<HdrI, RowRawCount>>, "ok")
CorruptFile == UserFile("corrupt", <<>>, "ok")
UnreadableFile == UserFile("unreadable", <<>>, "ok")
LargeFile == UserFile("table", <<HdrI>>, "size")
UserFiles ==
  { GoodFile, OtherGoodFile, RaisingFile, CorruptFile, UnreadableFile,
    LargeFile }
\* what a drop hands to onDrop: the dropzone takes one file at a time
AcceptedFiles == { <<f>> : f \in UserFiles }

ErrorMessage ==
  "Failed to process file. Please ensure the file contains brokerage names in column B and market share data in either column I (Mkt %) or column M ($ Vol Per Prod Agent)."
TypeMessage == "Only CSV and Excel files are accepted."
SizeMessage == "File size exceeds 10MB limit."

\* the sequence without its k-th element
Remove(s, k) == SubSeq(s, 1, k - 1) \o SubSeq(s, k + 1, Len(s))

extraction ==
  <<file, pc, jsonData, i, cols, brokerages, metrics, outcome, result>>

\* no invocation of processFile is followed step by step
NoFile == [kind |-> "none", rows |-> <<>>]
InitApp ==
  /\ file = NoFile
  /\ pc = "idle"
  /\ jsonData = <<>>
  /\ i = 0
  /\ cols = DefaultColumns
  /\ brokerages = <<>>
  /\ metrics = ZeroMetrics
  /\ outcome = "pending"
  /\ result = NoResult
  /\ run = 1
  /\ mode = "none"
  /\ first = NoFirst
  /\ AppInit

\* onDrop(acceptedFiles)
onDrop(acceptedFiles) ==
  LET IsValid(f) == f.valid = "ok"
      validFiles == SelectSeq(acceptedFiles, IsValid)
  IN /\ userActions < MaxUserActions
     /\ userActions' = userActions + 1
     /\ IF validFiles # <<>>
          THEN /\ files' = validFiles
               /\ fileProgress' = 100
               /\ uploadError' = Null
          ELSE /\ files' = files
               /\ fileProgress' = 0
               /\ uploadError' =
                    IF acceptedFiles = <<>> THEN Null
                    ELSE IF acceptedFiles[1].valid = "type"
                      THEN Some(TypeMessage)
                    ELSE Some(SizeMessage)
     /\ UNCHANGED <<isLoading, processedData, insights, additionalMetrics,
                    error, intervals, timeouts, inflight, clicks,
                    afterReset, lastDone>>
     /\ UNCHANGED <<extraction, harness>>

\* a click on Generate Visualization, enabled with a file selected and
\* isLoading false: handleUpload starts the progress interval
handleUpload ==
  /\ files # <<>> /\ ~isLoading
  /\ userActions < MaxUserActions
  /\ userActions' = userActions + 1
  /\ fileProgress' = 0
  /\ intervals' = Append(intervals, files)
  /\ clicks' = clicks + 1
  /\ afterReset' = FALSE
  /\ UNCHANGED <<isLoading, processedData, insights, additionalMetrics,
                 error, files, uploadError, timeouts, inflight, lastDone>>
  /\ UNCHANGED <<extraction, harness>>

\* a click on Reset, shown with a file selected and isLoading false
handleReset ==
  /\ files # <<>> /\ ~isLoading
  /\ userActions < MaxUserActions
  /\ userActions' = userActions + 1
  /\ files' = <<>>
  /\ uploadError' = Null
  /\ fileProgress' = 0
  /\ afterReset' = TRUE
  /\ UNCHANGED <<isLoading, processedData, insights, additionalMetrics,
                 error, intervals, timeouts, inflight, clicks, lastDone>>
  /\ UNCHANGED <<extraction, harness>>

\* the k-th progress interval fires: at 100 it clears itself and sets the
\* timeout that calls onFilesUploaded with the files of its handleUpload
progressInterval(k) ==
  /\ k \in 1..Len(intervals)
  /\ LET newProgress == fileProgress + 10
     IN IF newProgress >= 100
          THEN /\ intervals' = Remove(intervals, k)
               /\ timeouts' = Append(timeouts, intervals[k])
               /\ fileProgress' = 100
          ELSE /\ fileProgress' = newProgress
               /\ UNCHANGED <<intervals, timeouts>>
  /\ UNCHANGED <<isLoading, processedData, insights, additionalMetrics,
                 error, files, uploadError, inflight, userActions, clicks,
                 afterReset, lastDone>>
  /\ UNCHANGED <<extraction, harness>>

\* HandleFailure leaving processedData and insights as they are
MutantHandleFailureKeepsData ==
  /\ error' = Some(ErrorMessage)
  /\ isLoading' = FALSE
  /\ lastDone' = Some([ok |-> FALSE, value |-> NoResult])
  /\ UNCHANGED <<processedData, insights, additionalMetrics>>

\* the catch and the finally of handleFilesUploaded
HandleFailure ==
  /\ error' = Some(ErrorMessage)
  /\ processedData' = Null
  /\ insights' = Null
  /\ isLoading' = FALSE
  /\ lastDone' = Some([ok |-> FALSE, value |-> NoResult])
  /\ UNCHANGED additionalMetrics

\* HandleSuccess without the finally
MutantHandleSuccessStaysLoading(res) ==
  /\ processedData' = Some([labels |-> res.labels, data |-> res.data])
  /\ insights' = Some(res.summary)
  /\ additionalMetrics' = Some(res.additionalMetrics)
  /\ lastDone' = Some([ok |-> TRUE, value |-> res])
  /\ UNCHANGED <<error, isLoading>>

\* handleFilesUploaded after the await, and the finally
HandleSuccess(res) ==
  /\ processedData' = Some([labels |-> res.labels, data |-> res.data])
  /\ insights' = Some(res.summary)
  /\ additionalMetrics' = Some(res.additionalMetrics)
  /\ isLoading' = FALSE
  /\ lastDone' = Some([ok |-> TRUE, value |-> res])
  /\ UNCHANGED error

\* the k-th timeout fires: handleFilesUploaded(files) up to the await
handleFilesUploaded(k) ==
  /\ k \in 1..Len(timeouts)
  /\ timeouts' = Remove(timeouts, k)
  /\ IF timeouts[k] = <<>>
       THEN /\ HandleFailure
            /\ UNCHANGED inflight
       ELSE /\ isLoading' = TRUE
            /\ error' = Null
            /\ inflight' = Append(inflight, timeouts[k][1])
            /\ UNCHANGED <<processedData, insights, additionalMetrics,
                           lastDone>>
  /\ UNCHANGED <<files, uploadError, fileProgress, intervals, userActions,
                 clicks, afterReset>>
  /\ UNCHANGED <<extraction, harness>>

\* reader.onerror of the k-th invocation in flight: processFile rejects
\* and handleFilesUploaded goes on in its catch
AwaitOnError(k) ==
  /\ k \in 1..Len(inflight)
  /\ inflight[k].kind = "unreadable"
  /\ inflight' = Remove(inflight, k)
  /\ HandleFailure
  /\ UNCHANGED <<files, uploadError, fileProgress, intervals, timeouts,
                 userActions, clicks, afterReset>>
  /\ UNCHANGED <<extraction, harness>>

\* reader.onload of the k-th invocation in flight: processFile rejects when
\* XLSX.read or the extraction throws and resolves otherwise, and
\* handleFilesUploaded goes on
AwaitOnLoad(k) ==
  /\ k \in 1..Len(inflight)
  /\ inflight[k].kind \in {"corrupt", "table"}
  /\ inflight' = Remove(inflight, k)
  /\ IF inflight[k].kind = "corrupt"
       THEN HandleFailure
       ELSE LET r == extractMarketShareData(inflight[k].rows)
            IN IF r.raised THEN HandleFailure ELSE HandleSuccess(r.value)
  /\ UNCHANGED <<files, uploadError, fileProgress, intervals, timeouts,
                 userActions, clicks, afterReset>>
  /\ UNCHANGED <<extraction, harness>>

NextApp ==
  \/ \E a \in AcceptedFiles : onDrop(a)
  \/ handleUpload
  \/ handleReset
  \/ \E k \in 1..MaxUserActions : progressInterval(k)
  \/ \E k \in 1..MaxUserActions : handleFilesUploaded(k)
  \/ \E k \in 1..MaxUserActions : AwaitOnError(k)
  \/ \E k \in 1..MaxUserActions : AwaitOnLoad(k)

SpecApp == InitApp /\ [][NextApp]_vars

\* a step of AwaitOnLoad, told by what it does to inflight
LoadReported ==
  \E k \in 1..Len(inflight) :
    /\ inflight[k].kind \in {"corrupt", "table"}
    /\ inflight' = Remove(inflight, k)

\* the timers fire and every file read reports load or error
SpecAppFair ==
  /\ SpecApp
  /\ WF_vars(\E k \in 1..MaxUserActions : progressInterval(k))
  /\ WF_vars(\E k \in 1..MaxUserActions : handleFilesUploaded(k))
  /\ WF_vars(\E k \in 1..MaxUserActions : AwaitOnError(k))
  /\ WF_inflight(LoadReported)

\* ------------------------------------------------------------------------
\* Claims
\* ------------------------------------------------------------------------
\* n rounded to one decimal place, a tie away from zero
Round1(n) ==
  LET tenth == Unit \div 10
      q == (Abs(n) + tenth \div 2) \div tenth
  IN IF n < 0 THEN 0 - q * tenth ELSE q * tenth

\* a brand cell JavaScript takes as true
BrandPresent(cell) ==
  (cell.t = "str" /\ cell.s # <<>>) \/ (cell.t = "num" /\ cell.n # 0)

\* a row that is long enough, has a brand and a market-share cell that is
\* a number
IsAcceptedRow(c, row) ==
  /\ ~row.nil
  /\ RowLength(row) > Max2(c.brandColIndex, c.marketShareColIndex)
  /\ BrandPresent(Cell(row, c.brandColIndex))
  /\ ShareIsNumber(Cell(row, c.marketShareColIndex))

\* the row loop has just processed the row of index i - 1
RowJustProcessed == pc = "rows" /\ i >= 2
ShareCellJustProcessed == Cell(jsonData[i], cols.marketShareColIndex)
LastRecord == brokerages[Len(brokerages)]

Resolved == pc = "done" /\ outcome = "resolved"

\* C1: the labels and the values of the ranked output have the same length,
\* at most 10, and the values are non-increasing from first to last.
C1_RankedOutputShape ==
  Resolved =>
    /\ Len(result.labels) = Len(result.data)
    /\ Len(result.labels) <= 10
    /\ \A k \in 1..(Len(result.data) - 1) : result.data[k] >= result.data[k + 1]

\* more than 10 records were ranked and 10 of them, not all equal, are output
C1_Witness ==
  /\ Resolved
  /\ Len(brokerages) > 10
  /\ Len(result.labels) = 10
  /\ result.data[1] > result.data[10]

IsMktPercentText(cell) == IsString(cell) /\ toLowerCase(cell.s) = <<"m", "k", "t", " ", "%">>

\* C2: if one of the first 10 rows holds "Mkt %" (any letter case) at index
\* 8, the detected marketShare column is 8, whatever the rows hold at index
\* 12, before or after that row.
C2_MktPercentWins ==
  (pc \notin {"read", "detect"} /\ file.kind = "table"
   /\ \E k \in 1..Min2(10, Len(jsonData)) :
         ~jsonData[k].nil /\ IsMktPercentText(Cell(jsonData[k], 8)))
  => cols.marketShareColIndex = 8

\* row 0 holds "Mkt %" at index 8 and the row after it holds the volume
\* header at index 12
C2_Witness ==
  /\ pc = "done" /\ run = 1 /\ Len(jsonData) >= 2
  /\ IsMktPercentText(Cell(jsonData[1], 8))
  /\ IsString(Cell(jsonData[2], 12))
  /\ IsVolPerAgentHeader(toLowerCase(Cell(jsonData[2], 12).s))
  /\ ~IsString(Cell(jsonData[1], 12))
  /\ cols.marketShareColIndex = 8

\* C3: an accepted row whose market-share cell is a number v with
\* 0 < v < 1 gives a record whose marketShare is v * 100 rounded to one
\* decimal place.
C3_FractionRescaled ==
  (/\ RowJustProcessed
   /\ IsAcceptedRow(cols, jsonData[i])
   /\ ShareCellJustProcessed.t = "num"
   /\ ShareCellJustProcessed.n > 0
   /\ ShareCellJustProcessed.n < Unit)
  => /\ brokerages # <<>>
     /\ LastRecord.marketShare = Round1(ShareCellJustProcessed.n * 100)

\* the cell 0.1234 has given the record 12.3
C3_Witness ==
  /\ RowJustProcessed
  /\ IsAcceptedRow(cols, jsonData[i])
  /\ ShareCellJustProcessed = Dec(0, 1234)
  /\ brokerages # <<>>
  /\ LastRecord.marketShare = Dec(12, 3000).n

CoercedShare(cell) ==
  IF cell.t = "str"
    THEN parseFloat(removeChars(cell.s, {"%", "$", ","})).n
    ELSE IF cell.n < Unit THEN cell.n * 100 ELSE cell.n

\* C5: a row whose market-share value after coercion exceeds 1000 yields a
\* record whose marketShare is that value divided by 1000 and rounded to
\* one decimal place (1560 gives 1.6).
C5_RawCountRescaled ==
  (pc = "done" /\ file.kind = "table") =>
    \A k \in 2..Len(jsonData) :
      (/\ IsAcceptedRow(cols, jsonData[k])
       /\ CoercedShare(Cell(jsonData[k], cols.marketShareColIndex))
            > 1000 * Unit)
      => \E m \in 1..Len(brokerages) :
           brokerages[m].marketShare =
             Round1(CoercedShare(Cell(jsonData[k], cols.marketShareColIndex))
                    \div 1000)

\* C6: for every table of absent, text and number cells the extraction
\* returns a result and never raises; an out-of-range share is not reported
\* to the caller as a failure.
C6_NeverRaises ==
  file.kind = "table" => outcome # "rejected"

\* the brokerages and the outcome of a second run that has just ended
SecondRunEnds(how) == run = 2 /\ mode = how /\ pc # "done" /\ pc' = "done"

\* a skipped row leaves the records as they are and raises nothing
SkippedRowAddsNothing ==
  (pc = "rows" /\ i < Len(jsonData) /\ IsSkippedRow(cols, jsonData[i + 1]))
  => (brokerages' = brokerages /\ outcome' # "rejected")

\* C7 as stated: a data row that is absent, too short, without a brand or
\* without a numeric market share contributes no record, and the records
\* of the other rows are the same as if the row were not in the table.
C7_AsStated ==
  [][/\ SkippedRowAddsNothing
     /\ SecondRunEnds("without")
          => (outcome' = "resolved" /\ brokerages' = first.brokerages)]_vars

\* C7 amended: such a row contributes no record, and the records of the
\* other rows are the same as if the row were not in the table whenever the
\* column map detected without the row is the one detected with it (a data
\* row among the first 10 rows is scanned for header text too, and taking
\* a row out moves the rows after it up).
C7_SkippedRowNoEffect ==
  [][/\ SkippedRowAddsNothing
     /\ (SecondRunEnds("without") /\ cols = first.cols)
          => (outcome' = "resolved" /\ brokerages' = first.brokerages)]_vars

\* a table has been processed again without one of its skipped rows, with
\* the same column map, and has given the same records
C7_Witness ==
  /\ run = 2 /\ mode = "without" /\ pc = "done"
  /\ cols = first.cols
  /\ Len(brokerages) >= 2
  /\ brokerages = first.brokerages

SameOutput ==
  /\ outcome = "resolved"
  /\ result.labels = first.labels
  /\ result.data = first.data

\* C8 as stated: the ranked output of a run, put below a header row as the
\* data rows of a fresh table, gives the same labels in the same order with
\* the same values when it is ranked again.
C8_AsStated ==
  (run = 2 /\ mode = "output" /\ pc = "done") => SameOutput

\* C8 amended: it gives the same labels and values provided every value of
\* the output is 0 or at least 1 and no label is empty (a number below 1
\* is read as a fraction and comes back times 100; a row with an empty
\* brand is skipped).
C8_Idempotent ==
  (/\ run = 2 /\ mode = "output" /\ pc = "done"
   /\ \A k \in 1..Len(first.data) :
        first.data[k] = 0 \/ first.data[k] >= 1 * Unit
   /\ \A k \in 1..Len(first.labels) : first.labels[k] # <<>>)
  => SameOutput

\* an output of 10 records, all at least 1, has been ranked again
C8_Witness ==
  /\ run = 2 /\ mode = "output" /\ pc = "done"
  /\ Len(first.labels) = 10
  /\ \A k \in 1..Len(first.data) : first.data[k] >= 1 * Unit
  /\ \E k \in 1..9 : first.data[k] = first.data[k + 1]
  /\ SameOutput

\* C9: a table of at most one row gives empty labels and values, zero
\* metrics, no pricePerSqft and no closedListRatio, and does not raise.
C9_EmptyTable ==
  (pc = "done" /\ file.kind = "table" /\ Len(file.rows) <= 1) =>
    /\ outcome = "resolved"
    /\ result.labels = <<>>
    /\ result.data = <<>>
    /\ result.additionalMetrics =
         [totalSales |-> Num(0),
          averagePrice |-> Str(<<"$", "0">>),
          daysOnMarket |-> Num(0),
          totalOffices |-> Num(0),
          contributingAgents |-> Num(0),
          pricePerSqft |-> Absent,
          closedListRatio |-> Absent]

\* a table of the header row alone has been processed
C9_Witness ==
  /\ Resolved /\ run = 1
  /\ Len(file.rows) = 1
  /\ IsMktPercentText(Cell(file.rows[1], 8))
  /\ result.labels = <<>>

HasSotheby(brand) == includes(toLowerCase(brand), <<"s", "o", "t", "h", "e", "b", "y">>)
HasHomeSmart(brand) ==
  \/ includes(toLowerCase(brand), <<"h", "o", "m", "e", "s", "m", "a", "r", "t">>)
  \/ includes(toLowerCase(brand), <<"h", "o", "m", "e", " ", "s", "m", "a", "r", "t">>)

\* the brand normalisation pass keeps the number of records and every
\* marketShare
NormalizeKeepsShares ==
  /\ Len(brokerages') = Len(brokerages)
  /\ \A k \in 1..Len(brokerages) :
       brokerages'[k].marketShare = brokerages[k].marketShare

\* C10 as stated: in the brand normalisation pass every brand holding
\* "sotheby" gets the Sotheby's label, every brand holding "homesmart" or
\* "home smart" gets "HomeSmart", every other label is unchanged, and no
\* marketShare and not the number of records changes.
C10_AsStated ==
  [][(pc = "normalize" /\ pc' = "resort") =>
       /\ NormalizeKeepsShares
       /\ \A k \in 1..Len(brokerages) :
            /\ HasSotheby(brokerages[k].brand)
                 => brokerages'[k].brand = SothebysLabel
            /\ HasHomeSmart(brokerages[k].brand)
                 => brokerages'[k].brand = HomeSmartLabel
            /\ (~HasSotheby(brokerages[k].brand)
                /\ ~HasHomeSmart(brokerages[k].brand))
                 => brokerages'[k].brand = brokerages[k].brand]_vars

\* C10 amended: a brand holding "homesmart" or "home smart" gets
\* "HomeSmart", also when it holds "sotheby"; a brand holding "sotheby" and
\* neither of them gets the Sotheby's label; every other label is
\* unchanged; no marketShare and not the number of records changes.
C10_LabelsOnly ==
  [][(pc = "normalize" /\ pc' = "resort") =>
       /\ NormalizeKeepsShares
       /\ \A k \in 1..Len(brokerages) :
            /\ HasHomeSmart(brokerages[k].brand)
                 => brokerages'[k].brand = HomeSmartLabel
            /\ (HasSotheby(brokerages[k].brand)
                /\ ~HasHomeSmart(brokerages[k].brand))
                 => brokerages'[k].brand = SothebysLabel
            /\ (~HasSotheby(brokerages[k].brand)
                /\ ~HasHomeSmart(brokerages[k].brand))
                 => brokerages'[k].brand = brokerages[k].brand]_vars

\* the pass has rewritten a Sotheby's alias and a HomeSmart alias
C10_Witness ==
  /\ pc = "resort"
  /\ \E k \in 1..Len(brokerages) : brokerages[k].brand = SothebysLabel
  /\ \E k \in 1..Len(brokerages) : brokerages[k].brand = HomeSmartLabel
  /\ \E k \in 2..Len(jsonData) :
       Cell(jsonData[k], cols.brandColIndex) = Str(<<" ", "h", "o", "m", "e", " ", "s", "m", "a", "r", "t", " ", "E", "l", "i", "t", "e", " ">>)


\* the rows the header scan reads: rows 0 to 9
ScannedRows == 1..Min2(10, Len(jsonData))

\* the cell at (zero-based) index j of the k-th row is text the rule holds of
TextCellMatches(k, j, Rule(_)) ==
  /\ ~jsonData[k].nil
  /\ j < RowLength(jsonData[k])
  /\ IsTextCell(Cell(jsonData[k], j))
  /\ Rule(toLowerCase(Cell(jsonData[k], j).s))

\* a field rule of the inner loop or a generic market-share rule
AnyFieldRule(t) ==
  \/ IsBrandHeader(t) \/ IsTotalSalesHeader(t) \/ IsAvgPriceHeader(t)
  \/ IsDomHeader(t) \/ IsPricePerSqftHeader(t) \/ IsClosedListHeader(t)
  \/ IsTotalOfficesHeader(t) \/ IsContributingAgentsHeader(t)
  \/ IsExactMarketShareHeader(t) \/ IsPartialMarketShareHeader(t)
  \/ IsGenericShareHeader(t)

\* no text cell of the scanned rows satisfies a header rule
NoHeaderMatch ==
  \A k \in ScannedRows :
    /\ ~TextCellMatches(k, 8, IsMktPercentHeader)
    /\ ~TextCellMatches(k, 12, IsVolPerAgentHeader)
    /\ \A j \in 0..(Len(jsonData[k].c) - 1) :
         ~TextCellMatches(k, j, AnyFieldRule)

\* C11: for a table in which no text cell of the first 10 rows satisfies a
\* header rule the header scan completes without failure and the column
\* map is brand 1, marketShare 12, totalSales 6, avgPrice 10, daysOnMarket
\* 9, totalOffices 19, contributingAgents 19, pricePerSqft -1 and
\* closedListRatio -1.
C11_PositionalDefaults ==
  (pc # "read" /\ file.kind = "table" /\ NoHeaderMatch) =>
    /\ pc = "detect" => outcome = "pending"
    /\ pc # "detect" =>
         cols = [brandColIndex |-> 1,
                 marketShareColIndex |-> 12,
                 totalSalesColIndex |-> 6,
                 avgPriceColIndex |-> 10,
                 domColIndex |-> 9,
                 totalOfficesColIndex |-> 19,
                 contributingAgentsColIndex |-> 19,
                 pricePerSqftColIndex |-> 0 - 1,
                 closedListRatioColIndex |-> 0 - 1]

\* a table of a title row and a data row, with text cells and no header
\* text, has been processed with the default columns and has given a record
C11_Witness ==
  /\ Resolved /\ run = 1
  /\ NoHeaderMatch
  /\ Len(jsonData) >= 2
  /\ IsTextCell(Cell(jsonData[1], 0))
  /\ IsTextCell(Cell(jsonData[2], 12))
  /\ cols.brandColIndex = 1 /\ cols.marketShareColIndex = 12
  /\ brokerages # <<>>

\* the columns of the text cells of the scanned rows the rule holds of
MatchColumns(Rule(_)) ==
  { j \in 0..20 : \E k \in ScannedRows : TextCellMatches(k, j, Rule) }

\* no scanned row matches a priority rule: no market-share header at index
\* 8 and no volume header at index 12
NoPriorityMatch ==
  \A k \in ScannedRows :
    /\ ~TextCellMatches(k, 8, IsMktPercentHeader)
    /\ ~TextCellMatches(k, 12, IsVolPerAgentHeader)

\* C12: when no priority rule has matched in any scanned row, a header cell
\* that matches the generic market-share rules sets the marketShare column
\* to its column: the column of an exact "market share (#)" or
\* "market share (%)" cell if there is one, else of a "market share" or
\* "mkt share" cell if there is one, else of a "share", "percentage" or "%"
\* cell.
C12_GenericShareHeader ==
  (/\ pc \notin {"read", "detect"} /\ file.kind = "table"
   /\ NoPriorityMatch
   /\ MatchColumns(IsGenericShareHeader) # {})
  => cols.marketShareColIndex \in
       (IF MatchColumns(IsExactMarketShareHeader) # {}
          THEN MatchColumns(IsExactMarketShareHeader)
        ELSE IF MatchColumns(IsPartialMarketShareHeader) # {}
          THEN MatchColumns(IsPartialMarketShareHeader)
        ELSE MatchColumns(IsGenericShareHeader))

\* the column of the last text cell of the scanned rows the rule holds of,
\* in row-major order; the default when there is none
LastMatchColumn(Rule(_), default) ==
  LET M == { m \in ScannedRows \X (0..20) : TextCellMatches(m[1], m[2], Rule) }
  IN IF M = {} THEN default
     ELSE (CHOOSE m \in M :
             \A n \in M : n[1] < m[1] \/ (n[1] = m[1] /\ n[2] <= m[2]))[2]

\* the header scan has just ended (the column map is not written after it)
ScanEnded == pc = "rows" /\ i = 1

\* C13: each of the brand, totalSales, avgPrice, daysOnMarket,
\* pricePerSqft, closedListRatio, totalOffices and contributingAgents
\* columns is the column of the last text cell matching the field's rule,
\* in row-major order over rows 0 to 9; no cell of a row of index 10 or
\* more changes a column.
C13_LastMatchWins ==
  ScanEnded =>
    /\ cols.brandColIndex = LastMatchColumn(IsBrandHeader, 1)
    /\ cols.totalSalesColIndex = LastMatchColumn(IsTotalSalesHeader, 6)
    /\ cols.avgPriceColIndex = LastMatchColumn(IsAvgPriceHeader, 10)
    /\ cols.domColIndex = LastMatchColumn(IsDomHeader, 9)
    /\ cols.pricePerSqftColIndex = LastMatchColumn(IsPricePerSqftHeader, 0 - 1)
    /\ cols.closedListRatioColIndex = LastMatchColumn(IsClosedListHeader, 0 - 1)
    /\ cols.totalOfficesColIndex = LastMatchColumn(IsTotalOfficesHeader, 19)
    /\ cols.contributingAgentsColIndex
         = LastMatchColumn(IsContributingAgentsHeader, 19)

\* the row of index 0 has the brand header at index 1, the row of index 9
\* has brand headers at index 0 and at index 2, the row of index 10 has one
\* at index 0, and the brand column is 2
C13_Witness ==
  /\ pc = "done" /\ run = 1 /\ Len(jsonData) >= 11
  /\ TextCellMatches(1, 1, IsBrandHeader)
  /\ TextCellMatches(10, 0, IsBrandHeader)
  /\ TextCellMatches(10, 2, IsBrandHeader)
  /\ TextCellMatches(11, 0, IsBrandHeader)
  /\ cols.brandColIndex = 2
  /\ cols.domColIndex = 5

HasPrefix(s, p) == Len(s) >= Len(p) /\ SubSeq(s, 1, Len(p)) = p

\* the subject brand, as the labels show it after the brand normalisation
IsSubjectLabel(l) == includes(l, <<"S", "o", "t", "h", "e", "b", "y", "'", "s">>)
\* the positions of the subject and of the other records in the sorted list
SubjectPositions ==
  { k \in 1..Len(brokerages) : IsSubjectLabel(brokerages[k].brand) }
OtherPositions ==
  { k \in 1..Len(brokerages) : ~IsSubjectLabel(brokerages[k].brand) }
First(S) == CHOOSE k \in S : \A m \in S : k <= m
\* the share of the highest-ranked record of the subject, and of the
\* highest-ranked record that is not of the subject
SubjectShare == brokerages[First(SubjectPositions)].marketShare
RunnerUpShare == brokerages[First(OtherPositions)].marketShare

\* C14: the gap the insights report is the share of the subject minus the
\* share of the highest-ranked record that is not the subject, rounded to
\* one decimal place, whichever brand that record has (stated for a subject
\* that is among the records of the output).
C14_GapToRunnerUp ==
  (/\ Resolved
   /\ \E k \in 1..Len(result.labels) : IsSubjectLabel(result.labels[k])
   /\ OtherPositions # {})
  => HasPrefix(result.summary[2],
               toFixed(SubjectShare - RunnerUpShare, 1)
               \o <<" ", "p", "e", "r", "c", "e", "n", "t", "a", "g", "e", " ", "p", "o", "i", "n", "t", "s", " ">>)

\* C15: whenever an accepted record has the brand of the subject, the
\* leaderShare the insights report is the marketShare of such a record,
\* also when the subject ranks below the tenth position of the sorted list.
C15_LeaderShare ==
  (Resolved /\ SubjectPositions # {}) =>
    \E k \in SubjectPositions :
      result.summary[1] =
        <<"R", "u", "s", "s", " ", "L", "y", "o", "n", " ", "S", "o", "t", "h", "e", "b", "y", "'", "s", " ", "I", "n", "t", "e", "r", "n", "a", "t", "i", "o", "n", "a", "l", " ", "R", "e", "a", "l", "t", "y", " ", "h", "a", "s", " ">>
        \o toFixed(brokerages[k].marketShare, 1) \o <<"%", " ", "m", "a", "r", "k", "e", "t", " ", "s", "h", "a", "r", "e">>

\* C16: the top-3 concentration the insights report is the sum of the three
\* highest shares divided by the sum of the shares of all accepted records,
\* times 100, rounded to one decimal place.
C16_Top3Concentration ==
  (Resolved /\ SumShares(brokerages) > 0) =>
    result.summary[4] =
      <<"T", "o", "p", " ", "3", " ", "b", "r", "o", "k", "e", "r", "a", "g", "e", "s", " ", "c", "o", "n", "t", "r", "o", "l", " ">>
      \o PercentageText(SumShares(SubSeq(brokerages, 1, Min2(3, Len(brokerages)))),
                        SumShares(brokerages))
      \o <<"%", " ", "o", "f", " ", "t", "h", "e", " ", "m", "a", "r", "k", "e", "t">>

\* the pie chart the presentation layer makes of the result
PieChart == preparePieChartData(sortedData(result))
\* the sum of the shares of the accepted records ranked below fifth
BelowFifth == SumShares(SubSeq(brokerages, 6, Len(brokerages)))

\* C17: the output exposes every accepted record in sorted order, so that
\* the "All Others" bucket of the top-5 view is the sum of the shares of
\* all accepted records ranked below fifth, those below tenth included.
C17_AllOthersBucket ==
  (Resolved /\ Len(brokerages) > 5 /\ BelowFifth > 0) =>
    /\ Len(PieChart.labels) = 6
    /\ PieChart.labels[6] = <<"A", "l", "l", " ", "O", "t", "h", "e", "r", "s">>
    /\ PieChart.data[6] = Round1(BelowFifth)

MetricFields ==
  {"totalSales", "avgPrice", "daysOnMarket", "pricePerSqft",
   "closedListRatio", "totalOffices", "contributingAgents"}

\* the column a field of the metrics snapshot is mapped to
MetricColumn(f) ==
  CASE f = "totalSales" -> cols.totalSalesColIndex
    [] f = "avgPrice" -> cols.avgPriceColIndex
    [] f = "daysOnMarket" -> cols.domColIndex
    [] f = "pricePerSqft" -> cols.pricePerSqftColIndex
    [] f = "closedListRatio" -> cols.closedListRatioColIndex
    [] f = "totalOffices" -> cols.totalOfficesColIndex
    [] f = "contributingAgents" -> cols.contributingAgentsColIndex

\* the cell of a field parsed: text is stripped of ',' and '$' (a ratio of
\* '%' too) and read as a decimal, a count as a whole number
ParsedMetric(f, row) ==
  LET cell == Cell(row, MetricColumn(f))
  IN IF cell.t # "str" THEN cell
     ELSE IF f \in {"totalOffices", "contributingAgents"}
       THEN parseInt(removeChars(cell.s, {",", "$"}))
     ELSE IF f = "closedListRatio"
       THEN parseFloat(removeChars(cell.s, {"%", "$", ","}))
     ELSE parseFloat(removeChars(cell.s, {",", "$"}))

\* the row has a cell for the field that parses to a number
HasMetric(f, row) == ParsedMetric(f, row).t = "num"

\* the value of the field the row gives: a ratio below 1 times 100
MetricOf(f, row) ==
  IF f = "closedListRatio" /\ ParsedMetric(f, row).n < 1 * Unit
    THEN ParsedMetric(f, row).n * 100
    ELSE ParsedMetric(f, row).n

\* the (one-based) positions of the data rows that are processed (not
\* skipped for their length or an empty brand) and whose brand holds
\* "sotheby" in any letter case
MatchingRows ==
  { k \in 2..Len(jsonData) :
      /\ ~jsonData[k].nil
      /\ RowLength(jsonData[k])
           > Max2(cols.brandColIndex, cols.marketShareColIndex)
      /\ BrandPresent(Cell(jsonData[k], cols.brandColIndex))
      /\ HasSotheby(brandToString(Cell(jsonData[k], cols.brandColIndex))) }

\* those of them that reach beyond the totalSales, avgPrice and
\* daysOnMarket columns
LongMatchingRows ==
  { k \in MatchingRows :
      /\ RowLength(jsonData[k]) > cols.totalSalesColIndex
      /\ RowLength(jsonData[k]) > cols.avgPriceColIndex
      /\ RowLength(jsonData[k]) > cols.domColIndex }

Last(S) == CHOOSE k \in S : \A m \in S : m <= k

\* the row loop has ended without a failure
RowsEnded == pc = "sort"

\* C18 as stated: when several data rows match the subject brand, every
\* field of the metrics snapshot holds the value taken from the last
\* matching row; no field keeps a value from an earlier matching row.
C18_AsStated ==
  (RowsEnded /\ Cardinality(MatchingRows) >= 2) =>
    \A f \in MetricFields :
      metrics[f] = IF HasMetric(f, jsonData[Last(MatchingRows)])
                     THEN MetricOf(f, jsonData[Last(MatchingRows)])
                     ELSE 0

\* C18 amended: when several data rows match the subject brand, every field
\* of the metrics snapshot holds the value of the last matching row that
\* reaches beyond the totalSales, avgPrice and daysOnMarket columns and has
\* a cell for the field that parses to a number; a value is overwritten,
\* not added to, and a field keeps the value of an earlier matching row
\* when no later one has such a cell.
C18_LastReadableWins ==
  (RowsEnded /\ Cardinality(MatchingRows) >= 2) =>
    \A f \in MetricFields :
      LET S == { k \in LongMatchingRows : HasMetric(f, jsonData[k]) }
      IN metrics[f] = IF S = {} THEN 0 ELSE MetricOf(f, jsonData[Last(S)])

\* two rows of the subject have been processed: the days on market are the
\* ones of the second row, the total sales, which the second row has not,
\* are the ones of the first
C18_Witness ==
  /\ RowsEnded /\ run = 1
  /\ MatchingRows = {2, 3}
  /\ HasMetric("totalSales", jsonData[2])
  /\ ~HasMetric("totalSales", jsonData[3])
  /\ HasMetric("daysOnMarket", jsonData[3])
  /\ MetricOf("daysOnMarket", jsonData[2]) # MetricOf("daysOnMarket", jsonData[3])
  /\ metrics.daysOnMarket = MetricOf("daysOnMarket", jsonData[3])
  /\ metrics.totalSales = MetricOf("totalSales", jsonData[2])
  /\ metrics.totalSales > 0

\* the row loop is about to process the row of (one-based) position i + 1
AtRow(S) == pc = "rows" /\ i < Len(jsonData) /\ (i + 1) \in S

\* the metrics of the row are taken into the snapshot: every field the row
\* has a number for
MetricsExtracted(row) ==
  \A f \in MetricFields : HasMetric(f, row) => metrics'[f] = MetricOf(f, row)

\* C19 as stated: for every processed data row whose brand holds "sotheby"
\* in any letter case the subject metrics are extracted from their mapped
\* columns into the metrics snapshot.
C19_AsStated ==
  [][AtRow(MatchingRows) => MetricsExtracted(jsonData[i + 1])]_vars

\* C19 amended: they are extracted for every such row that is longer than
\* the largest of the totalSales, avgPrice and daysOnMarket columns; a
\* shorter row of the subject leaves the snapshot as it is.
C19_SubjectMetricsExtracted ==
  [][/\ AtRow(LongMatchingRows) => MetricsExtracted(jsonData[i + 1])
     /\ AtRow(MatchingRows \ LongMatchingRows) => metrics' = metrics]_vars

\* the row of "SOTHEBY'S Scottsdale" has just been processed and its days
\* on market, ratio and offices are in the snapshot
C19_Witness ==
  /\ RowJustProcessed /\ run = 1
  /\ i \in LongMatchingRows
  /\ HasPrefix(Cell(jsonData[i], cols.brandColIndex).s, <<"S", "O", "T", "H", "E", "B", "Y">>)
  /\ HasMetric("daysOnMarket", jsonData[i])
  /\ metrics.daysOnMarket = Dec(41, 5000).n
  /\ metrics.closedListRatio = Dec(101, 5000).n
  /\ metrics.totalOffices = Dec(3, 0).n

\* the text of an optional field of additionalMetrics for the value v
OptionalMetricText(f, v) ==
  IF f = "pricePerSqft"
    THEN Str(<<"$">> \o toFixed(v, 0))
    ELSE Str(toFixed(v, 1) \o <<"%">>)

\* the optional field f is in additionalMetrics exactly when its column was
\* detected and the last of the rows S with a number for it has one above
\* zero, and then it is that number formatted
OptionalMetricFrom(f, S) ==
  LET R == { k \in S : HasMetric(f, jsonData[k]) }
  IN IF MetricColumn(f) >= 0 /\ R # {} /\ MetricOf(f, jsonData[Last(R)]) > 0
       THEN result.additionalMetrics[f]
              = OptionalMetricText(f, MetricOf(f, jsonData[Last(R)]))
       ELSE result.additionalMetrics[f] = Absent

\* C20 as stated: pricePerSqft is in additionalMetrics exactly when its
\* column was detected and the cell of the subject row there parsed to a
\* number above zero, and likewise closedListRatio, whose value is first
\* multiplied by 100 when it is below 1; otherwise the field is omitted.
C20_AsStated ==
  Resolved =>
    /\ OptionalMetricFrom("pricePerSqft", MatchingRows)
    /\ OptionalMetricFrom("closedListRatio", MatchingRows)

\* C20 amended: the same, for the subject row that is longer than the
\* largest of the totalSales, avgPrice and daysOnMarket columns (the rows
\* the metrics are extracted from).
C20_OptionalMetrics ==
  Resolved =>
    /\ OptionalMetricFrom("pricePerSqft", LongMatchingRows)
    /\ OptionalMetricFrom("closedListRatio", LongMatchingRows)

\* a subject row with 0.98 in the detected closedListRatio column and
\* "$310" in the detected pricePerSqft column has given "98.0%" and "$310"
C20_Witness ==
  /\ Resolved /\ run = 1
  /\ cols.pricePerSqftColIndex = 13 /\ cols.closedListRatioColIndex = 14
  /\ \E k \in LongMatchingRows :
       /\ Cell(jsonData[k], 14) = Dec(0, 9800)
       /\ Cell(jsonData[k], 13) = Str(<<"$", "3", "1", "0">>)
  /\ result.additionalMetrics.closedListRatio = Str(<<"9", "8", ".", "0", "%">>)
  /\ result.additionalMetrics.pricePerSqft = Str(<<"$", "3", "1", "0">>)

IsCanonicalLabel(l) == l = SothebysLabel \/ l = HomeSmartLabel

\* C21: after the brand normalisation the ranked output holds at most one
\* record per canonical brand label: two rows whose brands are aliases of
\* the same known brand never both appear under that label.
C21_OneRecordPerLabel ==
  Resolved =>
    \A a, b \in 1..Len(result.labels) :
      (a # b /\ IsCanonicalLabel(result.labels[a]))
        => result.labels[a] # result.labels[b]

\* C24: every marketShare value of the ranked output lies within 0 and 100
\* percent, for every input table.
C24_SharesWithinRange ==
  Resolved =>
    \A k \in 1..Len(result.data) :
      result.data[k] >= 0 /\ result.data[k] <= 100 * Unit

\* the records of s with the marketShare v, in the order s has them
RecordsWithShare(s, v) ==
  LET Tie(r) == r.marketShare = v
  IN SelectSeq(s, Tie)

\* t has the records of every marketShare in the order s has them
SameTieOrder(s, t) ==
  \A v \in { s[k].marketShare : k \in 1..Len(s) } :
    RecordsWithShare(t, v) = RecordsWithShare(s, v)

\* C25: records with equal marketShare appear in the output in the order of
\* their rows in the input table: the first sort keeps the records of equal
\* marketShare in the order the row loop pushed them, the brand
\* normalisation keeps every record at its place, the re-sort leaves the
\* order of the first sort unchanged, and the output is the head of that
\* list.
C25_TiesKeepRowOrder ==
  [][/\ (pc = "sort" /\ pc' = "normalize")
          => /\ Len(brokerages') = Len(brokerages)
             /\ SameTieOrder(brokerages, brokerages')
     /\ (pc = "normalize" /\ pc' = "resort") => NormalizeKeepsShares
     /\ (pc = "resort" /\ pc' = "format") => brokerages' = brokerages
     /\ (pc = "format" /\ pc' = "done")
          => \A k \in 1..Len(result'.labels) :
               /\ result'.labels[k] = brokerages[k].brand
               /\ result'.data[k] = brokerages[k].marketShare]_vars

\* two rows of equal marketShare, the row loop pushed them one after the
\* other behind a record of a lower marketShare, are in the output in the
\* order of their rows
C25_Witness ==
  /\ Resolved /\ run = 1
  /\ \E k \in 1..(Len(result.data) - 1) :
       /\ result.data[k] = result.data[k + 1]
       /\ result.labels[k] # result.labels[k + 1]
       /\ \E a, b \in 2..Len(jsonData) :
            /\ a < b
            /\ Cell(jsonData[a], cols.brandColIndex) = Str(result.labels[k])
            /\ Cell(jsonData[b], cols.brandColIndex)
                 = Str(result.labels[k + 1])
            /\ \E c \in 2..(a - 1) :
                 /\ IsAcceptedRow(cols, jsonData[c])
                 /\ Cell(jsonData[c], cols.brandColIndex).t = "str"
                 /\ \E m \in (k + 2)..Len(result.labels) :
                      Cell(jsonData[c], cols.brandColIndex)
                        = Str(result.labels[m])

\* a rule of the header scan that assigns a column other than marketShare
ColumnRule(t) ==
  \/ IsBrandHeader(t) \/ IsTotalSalesHeader(t) \/ IsAvgPriceHeader(t)
  \/ IsDomHeader(t) \/ IsPricePerSqftHeader(t) \/ IsClosedListHeader(t)
  \/ IsTotalOfficesHeader(t) \/ IsContributingAgentsHeader(t)

\* the (one-based) positions of the scanned rows in which the header scan
\* finds a column: "Mkt %" at index 8, the volume header at index 12, or a
\* text cell a column rule holds of
HeaderRows ==
  { k \in ScannedRows :
      \/ TextCellMatches(k, 8, IsMktPercentHeader)
      \/ TextCellMatches(k, 12, IsVolPerAgentHeader)
      \/ \E j \in 0..(Len(jsonData[k].c) - 1) :
           TextCellMatches(k, j, ColumnRule) }

\* C26: per-row processing covers exactly the rows after the header: when
\* the header row is found at row k within the scan window, no row with
\* index at or below k yields a record, and row 0 never yields a record.
C26_OnlyRowsAfterHeader ==
  [][/\ pc' = "rows" => i' >= 1
     /\ (pc = "rows" /\ i < Len(jsonData) /\ HeaderRows # {}
         /\ i + 1 <= First(HeaderRows))
          => brokerages' = brokerages]_vars

FailedInvocationEnds ==
  \E k \in 1..Len(inflight) :
    /\ inflight' = Remove(inflight, k)
    /\ inflight[k] \in {UnreadableFile, CorruptFile, RaisingFile}

\* C22: whenever processing a file fails (the read fails, the bytes cannot
\* be parsed, or the extraction raises), the application ends that
\* invocation with the input-shape error message set, processedData and
\* insights null and isLoading false: no result of the failed invocation,
\* or of one before it, is kept for display.
C22_FailureClearsResult ==
  [][FailedInvocationEnds =>
       /\ error' = Some(ErrorMessage)
       /\ processedData' = Null
       /\ insights' = Null
       /\ isLoading' = FALSE]_vars

\* a file was processed and displayed, then the processing of a second
\* file has failed: the message is set and the first result is gone
C22_Witness ==
  /\ lastDone # Null /\ ~lastDone[1].ok
  /\ additionalMetrics # Null
  /\ processedData = Null /\ insights = Null
  /\ error = Some(ErrorMessage)
  /\ ~isLoading
  /\ inflight = <<>> /\ timeouts = <<>> /\ intervals = <<>>
  /\ clicks = 2

\* C23: for every sequence of user actions at most one file-processing
\* invocation is in flight at any time: a second invocation never starts
\* before the previous one has completed or failed.
C23_OneInvocationInFlight == Len(inflight) <= 1

\* a progress interval runs, a callback is pending or an invocation is in
\* flight
Pending == intervals # <<>> \/ timeouts # <<>> \/ inflight # <<>>

\* C27: every click on Generate Visualization with a file selected
\* eventually ends with isLoading false and either a result stored for
\* display or the error message set, and the application never stays in
\* the loading state forever, given that the timers fire and every file
\* read reports load or error.
C27_EveryClickEnds ==
  /\ Pending ~> (/\ ~Pending
                 /\ ~isLoading
                 /\ (processedData # Null \/ error # Null))
  /\ isLoading ~> ~isLoading

\* two clicks have ended, the last one with a result stored for display
C27_Witness ==
  /\ clicks = 2
  /\ ~Pending
  /\ ~isLoading
  /\ lastDone # Null /\ lastDone[1].ok
  /\ processedData # Null
  /\ error = Null

\* C29: after a click on Reset the upload callback is not invoked for the
\* files selected before: no processing starts until a file is selected
\* and Generate Visualization is clicked again, also when Reset is clicked
\* while the progress animation of an earlier click is running.
C29_NoCallbackAfterReset ==
  [][Len(timeouts') < Len(timeouts) => ~afterReset]_vars

\* C30: whenever no invocation is in flight and the invocation that
\* completed last succeeded, the application holds the result of that
\* invocation and no error, so that the visualization is displayed: the
\* failure of an earlier invocation never hides the result of a successful
\* one that completes later, under any interleaving of invocations.
C30_LastSuccessDisplayed ==
  (inflight = <<>> /\ lastDone # Null /\ lastDone[1].ok) =>
    /\ processedData = Some([labels |-> lastDone[1].value.labels,
                             data |-> lastDone[1].value.data])
    /\ error = Null
=============================================================================
